---- MODULE Spec2Model ----
(***************************************************************************)
(* helm-schema: inference of a JSON Schema for a chart's .Values from its  *)
(* template text.  The module models                                        *)
(*   - the template parser of one bundle (pkg/parser, latest revision):    *)
(*     normalizePath, the three extraction passes of ParseTemplateFile,    *)
(*     addValuePathWithHints and addIntermediatePaths;                      *)
(*   - the tree aggregator GetAllValues / getAllValuesParallel;            *)
(*   - the schema builder Generate / addPropertyToSchema (pkg/schema).     *)
(* Strings the code takes apart (paths) are sequences of one-character     *)
(* strings, so that trimming, index replacement, splitting and joining are *)
(* computed as the code computes them.                                      *)
(***************************************************************************)
EXTENDS Integers, Sequences, FiniteSets, TLC

VARIABLES
    \* ---- one bundle's TemplateParser (specification Spec)
    values,      \* tp.values: normalized path -> ValuePath
    variables,   \* tp.variables: variable name -> normalized path
    lastBound,   \* what the last file's text binds and references through variables
    lastRanged,  \* the direct references of the last file that stand in a range
    nfiles,      \* number of ParseTemplateFile calls made so far
    \* ---- normalizePath applied to a raw string (specification SpecNorm)
    normIn, normOnce, normTwice, normPc,
    \* ---- GetAllValues on a parser tree (specification SpecAgg)
    tree,        \* the root TemplateParser: [values, subcharts: name -> TemplateParser]
    aggPc,       \* "idle", "seq" (loop of GetAllValues), "par" (getAllValuesParallel)
    allValues,   \* the merge target of the running call
    toVisit,     \* the subcharts the running call's range loop has not reached yet
    unitPc,      \* per spawned goroutine: "start", "computed", "locked", "done"
    unitValues,  \* per spawned goroutine: its subchartValues
    unitTodo,    \* the entries the goroutine holding mu has not written yet
    mu,          \* sync.Mutex: Free or the name of the goroutine holding it
    wg,          \* sync.WaitGroup counter
    returned,    \* "first" / "again" -> the table the first / second call returned
    childStrategy, \* subchart name -> the strategy its own GetAllValues call took
    \* ---- Generate on a path table (specification SpecGen)
    genValues,   \* the values argument of Generate
    genPc,       \* "idle", "loop", "done" (returned), "panic" (failed type assertion)
    paths,       \* the sorted paths the loop has not reached yet
    properties,  \* schema["properties"]
    lastAdded,   \* the path the last addPropertyToSchema call was given
    \* ---- the usage-hint analyzer on one path (specification SpecHints)
    hintPath,    \* the path argument of inferTypeFromHints(content, path)
    hints,       \* the PipelineHints extractPipelineHints has gathered so far
    seen,        \* the pipelines of content the loop has analysed
    hintKind,    \* the kind inferTypeFromHints returned, "" before
    hintPc,      \* "loop", "done"
    \* ---- chartToSchema on a chart directory (specification SpecChart)
    chartIn,     \* the chart directory, the flag and the helm environment
    stack,       \* the running ParseChartWithOptions calls, the innermost last
    ret,         \* what the call that returned last returned
    trace,       \* the steps taken so far, each with the depth of its call
    cliPc,       \* "start", "parsing", "generated", "done", "error", "panic"
    schemas,     \* mainSchema and subchartSchemas of GenerateChartSchemas
    output,      \* what chartToSchema returned
    \* ---- tokenizePipeline on one pipeline text (specification SpecTok)
    tokPipeline, \* the pipeline argument
    tokI,        \* the position of the range loop, from 1
    tokCurrent,  \* current
    tokInQuotes, \* inQuotes
    tokTokens,   \* tokens
    tokPc,       \* "loop", "done"
    \* ---- two parsers given the same files in both orders (specification SpecFiles)
    tplFiles,    \* the template files, in the first order
    fwd,         \* the parser given them in that order, and the files it has not read
    rev          \* the parser given them in the other order, and the files it has not read

\* the value of mu while no goroutine holds the lock (no subchart has the empty
\* name)
Free == << >>

parserVars == <<values, variables, lastBound, lastRanged, nfiles>>
normVars == <<normIn, normOnce, normTwice, normPc>>
aggVars == <<tree, aggPc, allValues, toVisit, unitPc, unitValues, unitTodo, mu, wg, returned,
             childStrategy>>
genVars == <<genValues, genPc, paths, properties, lastAdded>>
hintVars == <<hintPath, hints, seen, hintKind, hintPc>>
chartVars == <<chartIn, stack, ret, trace, cliPc, schemas, output>>
tokVars == <<tokPipeline, tokI, tokCurrent, tokInQuotes, tokTokens, tokPc>>
fileVars == <<tplFiles, fwd, rev>>
vars == <<values, variables, lastBound, lastRanged, nfiles, normIn, normOnce, normTwice, normPc,
          tree, aggPc, allValues, toVisit, unitPc, unitValues, unitTodo, mu, wg, returned,
          childStrategy, genValues, genPc, paths, properties, lastAdded,
          hintPath, hints, seen, hintKind, hintPc,
          chartIn, stack, ret, trace, cliPc, schemas, output,
          tokPipeline, tokI, tokCurrent, tokInQuotes, tokTokens, tokPc,
          tplFiles, fwd, rev>>

----------------------------------------------------------------------------
(* Strings as sequences of characters.                                      *)

Digits == {"0", "1", "2", "3", "4", "5", "6", "7", "8", "9"}

\* the cutset of strings.TrimRight in normalizePath
TrailingPunct == {".", ",", ";", ":", "!", "?"}

\* strings.TrimRight(s, cutset)
RECURSIVE TrimRight(_, _)
TrimRight(s, cutset) ==
    IF s = << >> THEN << >>
    ELSE IF s[Len(s)] \in cutset THEN TrimRight(SubSeq(s, 1, Len(s) - 1), cutset)
    ELSE s

\* strings.HasSuffix(s, suffix)
HasSuffix(s, suffix) ==
    /\ Len(s) >= Len(suffix)
    /\ SubSeq(s, Len(s) - Len(suffix) + 1, Len(s)) = suffix

\* strings.TrimSuffix(s, suffix)
TrimSuffix(s, suffix) ==
    IF HasSuffix(s, suffix) THEN SubSeq(s, 1, Len(s) - Len(suffix)) ELSE s

\* length of the run of decimal digits of s starting at position i
RECURSIVE DigitRun(_, _)
DigitRun(s, i) ==
    IF i <= Len(s) /\ s[i] \in Digits THEN 1 + DigitRun(s, i + 1) ELSE 0

\* whether the pattern \[\d+\] matches s at position i, and the match's length
IndexMatchLen(s, i) ==
    IF i <= Len(s) /\ s[i] = "["
    THEN LET d == DigitRun(s, i + 1)
         IN IF d >= 1 /\ i + d + 1 <= Len(s) /\ s[i + d + 1] = "]" THEN d + 2 ELSE 0
    ELSE 0

\* regexp.MustCompile(`\[\d+\]`).ReplaceAllString(s, "[]"), scanning from i
RECURSIVE ReplaceIndexFrom(_, _)
ReplaceIndexFrom(s, i) ==
    IF i > Len(s) THEN << >>
    ELSE LET m == IndexMatchLen(s, i)
         IN IF m > 0 THEN <<"[", "]">> \o ReplaceIndexFrom(s, i + m)
            ELSE <<s[i]>> \o ReplaceIndexFrom(s, i + 1)

ReplaceAllIndex(s) == ReplaceIndexFrom(s, 1)

\* strings.Split(s, "."): the pieces between dots (one empty piece for "")
RECURSIVE SplitFrom(_, _, _)
SplitFrom(s, i, cur) ==
    IF i > Len(s) THEN <<cur>>
    ELSE IF s[i] = "." THEN <<cur>> \o SplitFrom(s, i + 1, << >>)
    ELSE SplitFrom(s, i + 1, Append(cur, s[i]))

Split(s) == SplitFrom(s, 1, << >>)

\* strings.Join(parts, ".")
RECURSIVE Join(_)
Join(parts) ==
    IF parts = << >> THEN << >>
    ELSE IF Len(parts) = 1 THEN parts[1]
    ELSE parts[1] \o <<".">> \o Join(Tail(parts))

----------------------------------------------------------------------------
(* The path normalizer.                                                     *)

\* a normalizer that cuts one trailing punctuation character (TrimSuffix for TrimRight)
normalizePathTrimOne(path) ==
    ReplaceAllIndex(IF path # << >> /\ path[Len(path)] \in TrailingPunct
                    THEN SubSeq(path, 1, Len(path) - 1) ELSE path)

normalizePath(path) == ReplaceAllIndex(TrimRight(path, TrailingPunct))

----------------------------------------------------------------------------
(* The value-path table of one bundle.                                      *)

\* &ValuePath{Path: p, Type: t, Required: false} (Default stays nil)
ValuePath(p, t) == [Path |-> p, Type |-> t, Required |-> FALSE, Default |-> "nil"]

\* map insertion / overwrite m[k] = v
Put(m, k, v) == [x \in DOMAIN m \cup {k} |-> IF x = k THEN v ELSE m[x]]

EmptyMap == [x \in {} |-> "nil"]

ArrayMarker == <<"[", "]">>

\* inferTypeFromHints(path): structural inference from the path alone
inferTypeFromHints(path) ==
    IF HasSuffix(path, ArrayMarker) THEN "array" ELSE "unknown"

\* the loop body of addIntermediatePaths for index i (i = 1 .. len(parts)-1)
intermediateStep(vals, parts, i) ==
    LET intermediatePath == Join(SubSeq(parts, 1, i))
        pathType == IF HasSuffix(parts[i], ArrayMarker) THEN "array" ELSE "object"
    IN IF intermediatePath \in DOMAIN vals
       THEN IF vals[intermediatePath].Type = "unknown" /\ pathType # "unknown"
            THEN [vals EXCEPT ![intermediatePath].Type = pathType]
            ELSE vals
       ELSE Put(vals, intermediatePath, ValuePath(intermediatePath, pathType))

RECURSIVE intermediateLoop(_, _, _)
intermediateLoop(vals, parts, i) ==
    IF i >= Len(parts) THEN vals
    ELSE intermediateLoop(intermediateStep(vals, parts, i), parts, i + 1)

\* addIntermediatePaths that creates the missing prefixes but promotes nothing
addIntermediatePathsNoPromote(vals, path) ==
    LET parts == Split(path)
    IN [p \in DOMAIN vals \cup {Join(SubSeq(parts, 1, i)) : i \in 1 .. Len(parts) - 1} |->
          IF p \in DOMAIN vals THEN vals[p] ELSE ValuePath(p, "object")]

\* addIntermediatePaths(path)
addIntermediatePaths(vals, path) == intermediateLoop(vals, Split(path), 1)

\* addValuePathWithHints that overwrites an existing entry
addValuePathOverwrite(vals, path) ==
    LET normalizedPath == normalizePath(path)
    IN addIntermediatePaths(
          Put(vals, normalizedPath, ValuePath(normalizedPath, inferTypeFromHints(path))),
          normalizedPath)

\* addValuePathWithHints(path)
addValuePathWithHints(vals, path) ==
    LET normalizedPath == normalizePath(path)
        withLeaf == IF normalizedPath \notin DOMAIN vals
                    THEN Put(vals, normalizedPath,
                             ValuePath(normalizedPath, inferTypeFromHints(path)))
                    ELSE vals
    IN addIntermediatePaths(withLeaf, normalizedPath)

----------------------------------------------------------------------------
(* Template text.  A template file is the sequence of its pipeline          *)
(* expressions, each in one of the shapes the three patterns tell apart:    *)
(*   assign  {{ $var := .Values.path }}          (varRe, and re on its     *)
(*                                                 right-hand side)         *)
(*   direct  {{ .Values.path }}, {{ range .Values.path }} or               *)
(*           {{ range $k, $v := .Values.path }}   (re only: varRe needs    *)
(*                                                 "$" right after "{{")    *)
(*   varref  {{ $var.path }}                      (varRefRe)                *)
(* path is the raw text the valuePath group captures.                       *)

Assign(v, p) == [kind |-> "assign", var |-> v, path |-> p, usage |-> "plain"]
Direct(p, u) == [kind |-> "direct", var |-> "", path |-> p, usage |-> u]
VarRef(v, p) == [kind |-> "varref", var |-> v, path |-> p, usage |-> "plain"]

Usages == {"plain", "range", "rangeKV"}

\* raw captures: a, b, a.b, a[0], a[0].b
RawA == <<"a">>
RawB == <<"b">>
RawAB == <<"a", ".", "b">>
RawA0 == <<"a", "[", "0", "]">>
RawA0B == <<"a", "[", "0", "]", ".", "b">>

Items ==
    {Assign("x", RawA), Assign("x", RawA0), Assign("x", RawB)}
    \cup {Direct(RawA, u) : u \in Usages}
    \cup {Direct(RawAB, "plain"), Direct(RawA0B, "plain")}
    \cup {VarRef("x", RawB), VarRef("x", RawA0)}

\* the most pipeline expressions a template file of the model holds
MaxItems == 2

\* the most template files one parser is given
MaxFiles == 2

RECURSIVE SeqsUpTo(_, _)
SeqsUpTo(S, n) ==
    IF n = 0 THEN {<< >>}
    ELSE LET shorter == SeqsUpTo(S, n - 1)
         IN shorter \cup {Append(q, x) : q \in {r \in shorter : Len(r) = n - 1}, x \in S}

Files == SeqsUpTo(Items, MaxItems)

\* strings.TrimSpace(contentStr) == "": the file holds no text at all
IsBlank(file) == file = << >>

----------------------------------------------------------------------------
(* The three extraction passes.                                             *)

\* varRe.FindAllStringSubmatch: the assignments, in text order
varReMatches(file) == SelectSeq(file, LAMBDA it : it.kind = "assign")

\* re.FindAllStringSubmatch: every .Values.<path>, in text order
reMatches(file) == SelectSeq(file, LAMBDA it : it.kind \in {"assign", "direct"})

\* varRefRe.FindAllStringSubmatch: every $var.<path>, in text order
varRefReMatches(file) == SelectSeq(file, LAMBDA it : it.kind = "varref")

\* parseVariableAssignments
RECURSIVE assignLoop(_, _)
assignLoop(vars_, matches) ==
    IF matches = << >> THEN vars_
    ELSE LET varName == Head(matches).var
             valuePath == normalizePath(Head(matches).path)
         IN assignLoop(IF valuePath # << >> THEN Put(vars_, varName, valuePath) ELSE vars_,
                       Tail(matches))

\* parseVariableAssignments that keeps the first binding of a name
RECURSIVE assignLoopFirstWins(_, _)
assignLoopFirstWins(vars_, matches) ==
    IF matches = << >> THEN vars_
    ELSE LET varName == Head(matches).var
             valuePath == normalizePath(Head(matches).path)
         IN assignLoopFirstWins(
               IF valuePath # << >> /\ varName \notin DOMAIN vars_
               THEN Put(vars_, varName, valuePath) ELSE vars_,
               Tail(matches))

parseVariableAssignmentsFirstWins(vars_, file) ==
    assignLoopFirstWins(vars_, varReMatches(file))

parseVariableAssignments(vars_, file) == assignLoop(vars_, varReMatches(file))

\* parseDirectValueReferences
RECURSIVE directLoop(_, _)
directLoop(vals, matches) ==
    IF matches = << >> THEN vals
    ELSE LET path == normalizePath(Head(matches).path)
         IN directLoop(IF path # << >> THEN addValuePathWithHints(vals, path) ELSE vals,
                       Tail(matches))

parseDirectValueReferences(vals, file) == directLoop(vals, reMatches(file))

\* parseVariableReferences
RECURSIVE varRefLoop(_, _, _)
varRefLoop(vals, vars_, matches) ==
    IF matches = << >> THEN vals
    ELSE LET varName == Head(matches).var
             fieldPath == normalizePath(Head(matches).path)
         IN varRefLoop(
               IF varName \in DOMAIN vars_ /\ fieldPath # << >>
               THEN addValuePathWithHints(vals, vars_[varName] \o <<".">> \o fieldPath)
               ELSE vals,
               vars_, Tail(matches))

parseVariableReferences(vals, vars_, file) == varRefLoop(vals, vars_, varRefReMatches(file))

\* What a file's text says, read off the text alone (not off the parser): a record
\* for every assignment {{ $X := .Values.P }} and reference $X.F of the file, with
\* last = TRUE when no later assignment of the file binds $X again
BoundRefs(file) ==
    {[var |-> file[ij[1]].var, path |-> file[ij[1]].path, field |-> file[ij[2]].path,
      last |-> \A k \in (ij[1] + 1) .. Len(file) :
                  ~(file[k].kind = "assign" /\ file[k].var = file[ij[1]].var)] :
        ij \in {xy \in (1 .. Len(file)) \X (1 .. Len(file)) :
                  /\ file[xy[1]].kind = "assign"
                  /\ file[xy[2]].kind = "varref"
                  /\ file[xy[2]].var = file[xy[1]].var}}

\* <<P, usage>> for every direct reference .Values.P that follows a range keyword
RangedRefs(file) ==
    {<<file[i].path, file[i].usage>> :
        i \in {k \in 1 .. Len(file) : file[k].kind = "direct" /\ file[k].usage # "plain"}}

\* the tables after ParseTemplateFile's three passes over a non-blank file
parsedVariables(vars_, file) == parseVariableAssignments(vars_, file)

\* the reference pass run against the bindings found before this file
parsedValuesRefsFirst(vals, vars_, file) ==
    parseVariableReferences(parseDirectValueReferences(vals, file), vars_, file)

parsedValues(vals, vars_, file) ==
    parseVariableReferences(parseDirectValueReferences(vals, file),
                            parsedVariables(vars_, file), file)

----------------------------------------------------------------------------
(* Specification Spec: one TemplateParser fed template files.               *)

\* New()
New == [values |-> EmptyMap, variables |-> EmptyMap]

NormIdle ==
    /\ normIn = << >>
    /\ normOnce = << >>
    /\ normTwice = << >>
    /\ normPc = "off"

AggIdle ==
    /\ tree = [values |-> EmptyMap, subcharts |-> EmptyMap]
    /\ aggPc = "off"
    /\ allValues = EmptyMap
    /\ toVisit = {}
    /\ unitPc = EmptyMap
    /\ unitValues = EmptyMap
    /\ unitTodo = {}
    /\ mu = Free
    /\ wg = 0
    /\ returned = EmptyMap
    /\ childStrategy = EmptyMap

GenIdle ==
    /\ genValues = EmptyMap
    /\ genPc = "off"
    /\ paths = << >>
    /\ properties = EmptyMap
    /\ lastAdded = << >>

NoHints ==
    [hasArrayIteration |-> FALSE, hasMapIteration |-> FALSE,
     hasArrayOperations |-> FALSE, hasMapOperations |-> FALSE]

HintIdle ==
    /\ hintPath = << >>
    /\ hints = NoHints
    /\ seen = {}
    /\ hintKind = ""
    /\ hintPc = "off"

\* a TemplateParser as its readers see it
Parser(vals, subs) == [values |-> vals, subcharts |-> subs]

NoReturn == [state |-> "none", parser |-> Parser(EmptyMap, EmptyMap)]
NoOutput == [kind |-> "none", error |-> "", properties |-> EmptyMap]
NoSchemas == [main |-> EmptyMap, subs |-> << >>]

ChartIdle ==
    /\ chartIn = [valid |-> FALSE, meta |-> "ok", files |-> << >>, deps |-> << >>,
                  include |-> FALSE, helm |-> "ok"]
    /\ stack = << >>
    /\ ret = NoReturn
    /\ trace = << >>
    /\ cliPc = "off"
    /\ schemas = NoSchemas
    /\ output = NoOutput

\* a parser and the files it is still to be given
Reader(tp, todo) == [values |-> tp.values, variables |-> tp.variables, todo |-> todo]

FilesIdle ==
    /\ tplFiles = << >>
    /\ fwd = Reader(New, << >>)
    /\ rev = Reader(New, << >>)

TokIdle ==
    /\ tokPipeline = << >>
    /\ tokI = 1
    /\ tokCurrent = << >>
    /\ tokInQuotes = FALSE
    /\ tokTokens = << >>
    /\ tokPc = "off"

Init ==
    /\ values = New.values
    /\ variables = New.variables
    /\ lastBound = {}
    /\ lastRanged = {}
    /\ nfiles = 0
    /\ NormIdle
    /\ AggIdle
    /\ GenIdle
    /\ HintIdle
    /\ ChartIdle
    /\ TokIdle
    /\ FilesIdle

\* ParseTemplateFile(filePath), the file's text read without error
ParseTemplateFile(file) ==
    /\ nfiles < MaxFiles
    /\ nfiles' = nfiles + 1
    /\ lastBound' = BoundRefs(file)
    /\ lastRanged' = RangedRefs(file)
    /\ IF IsBlank(file)
       THEN UNCHANGED <<values, variables>>
       ELSE /\ variables' = parsedVariables(variables, file)
            /\ values' = parsedValues(values, variables, file)
    /\ UNCHANGED <<normVars, aggVars, genVars, hintVars, chartVars, tokVars, fileVars>>

Next == \E file \in Files : ParseTemplateFile(file)

Spec == Init /\ [][Next]_vars

----------------------------------------------------------------------------
(* Specification SpecOrder: files that assign one variable more than once   *)
(* and reference its fields before, between and after the assignments.      *)

OrderItems ==
    {Assign("x", RawA), Assign("x", RawB), Assign("x", RawA0), VarRef("x", RawB)}

\* the most pipeline expressions of such a file
MaxOrderItems == 3

OrderFiles == SeqsUpTo(OrderItems, MaxOrderItems)

\* BoundRefs with the text's order kept: refFirst = TRUE when the reference stands
\* before the assignment
OrderedBoundRefs(file) ==
    {[var |-> file[ij[1]].var, path |-> file[ij[1]].path, field |-> file[ij[2]].path,
      last |-> \A k \in (ij[1] + 1) .. Len(file) :
                  ~(file[k].kind = "assign" /\ file[k].var = file[ij[1]].var),
      refFirst |-> ij[2] < ij[1]] :
        ij \in {xy \in (1 .. Len(file)) \X (1 .. Len(file)) :
                  /\ file[xy[1]].kind = "assign"
                  /\ file[xy[2]].kind = "varref"
                  /\ file[xy[2]].var = file[xy[1]].var}}

\* ParseTemplateFile(filePath) on such a file
ParseOrderFile(file) ==
    /\ nfiles < MaxFiles
    /\ nfiles' = nfiles + 1
    /\ lastBound' = OrderedBoundRefs(file)
    /\ lastRanged' = RangedRefs(file)
    /\ IF IsBlank(file)
       THEN UNCHANGED <<values, variables>>
       ELSE /\ variables' = parsedVariables(variables, file)
            /\ values' = parsedValues(values, variables, file)
    /\ UNCHANGED <<normVars, aggVars, genVars, hintVars, chartVars, tokVars, fileVars>>

NextOrder == \E file \in OrderFiles : ParseOrderFile(file)

SpecOrder == Init /\ [][NextOrder]_vars

----------------------------------------------------------------------------
(* Specification SpecNorm: normalizePath applied to a raw string, twice.    *)

NormAlphabet == {"a", ".", ":", "[", "]", "0"}

\* the longest raw string handed to normalizePath
MaxRawLen == 4

ParserIdle ==
    /\ values = EmptyMap
    /\ variables = EmptyMap
    /\ lastBound = {}
    /\ lastRanged = {}
    /\ nfiles = 0

InitNorm ==
    /\ normIn \in SeqsUpTo(NormAlphabet, MaxRawLen)
    /\ normOnce = << >>
    /\ normTwice = << >>
    /\ normPc = "raw"
    /\ ParserIdle
    /\ AggIdle
    /\ GenIdle
    /\ HintIdle
    /\ ChartIdle
    /\ TokIdle
    /\ FilesIdle

NormalizeRaw ==
    /\ normPc = "raw"
    /\ normOnce' = normalizePath(normIn)
    /\ normPc' = "once"
    /\ UNCHANGED <<normIn, normTwice, parserVars, aggVars, genVars, hintVars, chartVars, tokVars, fileVars>>

NormalizeAgain ==
    /\ normPc = "once"
    /\ normTwice' = normalizePath(normOnce)
    /\ normPc' = "twice"
    /\ UNCHANGED <<normIn, normOnce, parserVars, aggVars, genVars, hintVars, chartVars, tokVars, fileVars>>

NextNorm == NormalizeRaw \/ NormalizeAgain

SpecNorm == InitNorm /\ [][NextNorm]_vars

----------------------------------------------------------------------------
(* The tree aggregator.                                                     *)

\* len(tp.subcharts) > 5 selects the concurrent merge
FanOutThreshold == 5

\* the concurrent merge chosen at the threshold already
strategyOfAtLeast(tp) ==
    IF Cardinality(DOMAIN tp.subcharts) >= FanOutThreshold THEN "par" ELSE "seq"

\* the branch GetAllValues takes on a parser
strategyOf(tp) ==
    IF Cardinality(DOMAIN tp.subcharts) > FanOutThreshold THEN "par" ELSE "seq"

\* prefixedPath := subchartName + "." + path
prefixedPath(name, path) == name \o <<".">> \o path

\* the &ValuePath{...} stored under prefixedPath
prefixedValuePath(name, path, valuePath) ==
    [Path |-> prefixedPath(name, path),
     Type |-> valuePath.Type,
     Required |-> valuePath.Required,
     Default |-> valuePath.Default]

\* the inner loop: one subchart's flattened table written into allValues
mergeSubchart(all, name, subchartValues) ==
    LET written == {prefixedPath(name, path) : path \in DOMAIN subchartValues}
    IN [k \in DOMAIN all \cup written |->
          IF k \in written
          THEN LET path == CHOOSE q \in DOMAIN subchartValues : prefixedPath(name, q) = k
               IN prefixedValuePath(name, path, subchartValues[path])
          ELSE all[k]]

\* GetAllValues as a nested call computes it: the node's own table, then every
\* subchart's flattened table re-keyed (the range order is Go's map order; names
\* are taken in some order)
RECURSIVE GetAllValues(_)
RECURSIVE mergeSubcharts(_, _, _)
mergeSubcharts(all, tp, names) ==
    IF names = {} THEN all
    ELSE LET name == CHOOSE n \in names : TRUE
         IN mergeSubcharts(mergeSubchart(all, name, GetAllValues(tp.subcharts[name])),
                           tp, names \ {name})

GetAllValues(tp) == mergeSubcharts(tp.values, tp, DOMAIN tp.subcharts)

\* allValues of getAllValuesParallel after maps.Copy(allValues, tp.values)
parallelTarget(tp) == tp.values

\* allValues of GetAllValues after maps.Copy(allValues, tp.values)
sequentialTarget(tp) == tp.values

----------------------------------------------------------------------------
(* Parser trees.  Every node's table is one ParseTemplateFile produces.     *)

TableOf(file) == parsedValues(EmptyMap, EmptyMap, file)

\* {b: unknown}
TabB == TableOf(<<Direct(RawB, "plain")>>)
\* {b: object, b.b: unknown}
TabBB == TableOf(<<Assign("x", RawB), VarRef("x", RawB)>>)
\* {a: object, a.b: unknown}
TabAB == TableOf(<<Direct(RawAB, "plain")>>)

Leaf(t) == [values |-> t, subcharts |-> EmptyMap]
Node(t, kids) == [values |-> t, subcharts |-> kids]

\* subchart names: the name fields of Chart.yaml's dependencies, among them one
\* that holds a dot
KidNames ==
    <<<<"a">>, <<"a", ".", "b">>, <<"c">>, <<"d">>, <<"e">>, <<"f">>, <<"g">>, <<"h">>>>

\* the parsers a subchart can be: leaves, one with a subchart of its own whose
\* re-keyed path a.b meets the node's own a.b, and one over the fan-out threshold
Subtrees ==
    {Leaf(TabB), Leaf(TabBB), Node(TabAB, [n \in {KidNames[1]} |-> Leaf(TabBB)]),
     Node(TabB, [n \in {KidNames[i] : i \in 1 .. (FanOutThreshold + 1)} |-> Leaf(TabB)])}

RootTables == {EmptyMap, TabB, TabAB}

\* the most subcharts of a tree whose subcharts vary freely
MaxKids == 2

\* the subcharts of the widest tree beyond the fan-out threshold
MaxExtraKids == 1

NamesUpTo(k) == {KidNames[i] : i \in 1 .. k}

SmallTrees ==
    UNION {{Node(t, kids) : t \in RootTables, kids \in [NamesUpTo(k) -> Subtrees]} :
              k \in 0 .. MaxKids}

\* trees at and over the threshold: every subchart holds {b: object, b.b: unknown}
WideTrees ==
    {Node(TabAB, [n \in NamesUpTo(k) |-> Leaf(TabBB)]) :
        k \in FanOutThreshold .. (FanOutThreshold + MaxExtraKids)}

Trees == SmallTrees \cup WideTrees

----------------------------------------------------------------------------
(* Specification SpecFiles: the loop of ParseChartWithOptions over the       *)
(* template files of one chart, run by two parsers on the same two files in  *)
(* opposite orders.                                                          *)

\* the pipelines of such a file: assignments of one variable, a reference to a
\* field of it, direct references
FileItems ==
    {Assign("x", RawA), Assign("x", RawB), VarRef("x", RawB),
     Direct(RawAB, "plain"), Direct(RawA, "range")}

FilePairs == {<<f, g>> : f, g \in SeqsUpTo(FileItems, MaxItems)}

\* the parser after tp.ParseTemplateFile(file) returned nil
afterParseTemplateFile(tp, file) ==
    IF IsBlank(file) THEN tp
    ELSE Reader([values |-> parsedValues(tp.values, tp.variables, file),
                 variables |-> parsedVariables(tp.variables, file)], tp.todo)

InitFiles ==
    /\ tplFiles \in FilePairs
    /\ fwd = Reader(New, tplFiles)
    /\ rev = Reader(New, <<tplFiles[2], tplFiles[1]>>)
    /\ ParserIdle
    /\ NormIdle
    /\ AggIdle
    /\ GenIdle
    /\ HintIdle
    /\ ChartIdle
    /\ TokIdle

\* one iteration of the loop over templateFiles, in the first order
ParseForward ==
    /\ fwd.todo # << >>
    /\ fwd' = [afterParseTemplateFile(fwd, Head(fwd.todo)) EXCEPT !.todo = Tail(fwd.todo)]
    /\ UNCHANGED <<tplFiles, rev>>
    /\ UNCHANGED <<parserVars, normVars, aggVars, genVars, hintVars, chartVars, tokVars>>

\* one iteration of the loop over templateFiles, in the other order
ParseReverse ==
    /\ rev.todo # << >>
    /\ rev' = [afterParseTemplateFile(rev, Head(rev.todo)) EXCEPT !.todo = Tail(rev.todo)]
    /\ UNCHANGED <<tplFiles, fwd>>
    /\ UNCHANGED <<parserVars, normVars, aggVars, genVars, hintVars, chartVars, tokVars>>

NextFiles ==
    \/ ParseForward
    \/ ParseReverse

SpecFiles == InitFiles /\ [][NextFiles]_vars

----------------------------------------------------------------------------
(* Specification SpecAgg: calls of GetAllValues and getAllValuesParallel on *)
(* one tree.  The range loops visit the subcharts in any order; the         *)
(* goroutines of the concurrent merge interleave freely.                    *)

InitAgg ==
    /\ tree \in Trees
    /\ aggPc = "idle"
    /\ allValues = EmptyMap
    /\ toVisit = {}
    /\ unitPc = EmptyMap
    /\ unitValues = EmptyMap
    /\ unitTodo = {}
    /\ mu = Free
    /\ wg = 0
    /\ returned = EmptyMap
    /\ childStrategy = EmptyMap
    /\ ParserIdle
    /\ NormIdle
    /\ GenIdle
    /\ HintIdle
    /\ ChartIdle
    /\ TokIdle
    /\ FilesIdle

\* GetAllValues(): copy the own table, then pick the strategy by the subchart count
CallGetAllValues ==
    /\ aggPc = "idle"
    /\ returned = EmptyMap
    /\ IF strategyOf(tree) = "par"
       THEN /\ aggPc' = "par"
            /\ allValues' = parallelTarget(tree)
       ELSE /\ aggPc' = "seq"
            /\ allValues' = sequentialTarget(tree)
    /\ toVisit' = DOMAIN tree.subcharts
    /\ UNCHANGED <<tree, unitPc, unitValues, unitTodo, mu, wg, returned>>
    /\ UNCHANGED <<parserVars, normVars, genVars, hintVars, chartVars, tokVars, fileVars>>
    /\ UNCHANGED childStrategy

\* getAllValuesParallel() called on the same parser after GetAllValues returned
CallGetAllValuesParallel ==
    /\ aggPc = "idle"
    /\ returned # EmptyMap
    /\ "again" \notin DOMAIN returned
    /\ aggPc' = "par"
    /\ allValues' = parallelTarget(tree)
    /\ toVisit' = DOMAIN tree.subcharts
    /\ unitPc' = EmptyMap
    /\ unitValues' = EmptyMap
    /\ UNCHANGED <<tree, unitTodo, mu, wg, returned>>
    /\ UNCHANGED <<parserVars, normVars, genVars, hintVars, chartVars, tokVars, fileVars>>
    /\ childStrategy' = EmptyMap

\* one iteration of the sequential range loop
SeqMerge(name) ==
    /\ aggPc = "seq"
    /\ name \in toVisit
    /\ allValues' = mergeSubchart(allValues, name, GetAllValues(tree.subcharts[name]))
    /\ toVisit' = toVisit \ {name}
    /\ UNCHANGED <<tree, aggPc, unitPc, unitValues, unitTodo, mu, wg, returned>>
    /\ UNCHANGED <<parserVars, normVars, genVars, hintVars, chartVars, tokVars, fileVars>>
    /\ childStrategy' = Put(childStrategy, name, strategyOf(tree.subcharts[name]))

\* return allValues at the end of GetAllValues
SeqReturn ==
    /\ aggPc = "seq"
    /\ toVisit = {}
    /\ returned' = Put(returned, "first", allValues)
    /\ aggPc' = "idle"
    /\ allValues' = EmptyMap
    /\ UNCHANGED <<tree, toVisit, unitPc, unitValues, unitTodo, mu, wg>>
    /\ UNCHANGED <<parserVars, normVars, genVars, hintVars, chartVars, tokVars, fileVars>>
    /\ UNCHANGED childStrategy

\* one iteration of the spawning loop: wg.Add(1); go func(name, parser)
Spawn(name) ==
    /\ aggPc = "par"
    /\ name \in toVisit
    /\ toVisit' = toVisit \ {name}
    /\ wg' = wg + 1
    /\ unitPc' = Put(unitPc, name, "start")
    /\ unitValues' = Put(unitValues, name, EmptyMap)
    /\ UNCHANGED <<tree, aggPc, allValues, unitTodo, mu, returned>>
    /\ UNCHANGED <<parserVars, normVars, genVars, hintVars, chartVars, tokVars, fileVars>>
    /\ UNCHANGED childStrategy

\* subchartValues := parser.GetAllValues()
UnitCompute(name) ==
    /\ name \in DOMAIN unitPc
    /\ unitPc[name] = "start"
    /\ unitValues' = [unitValues EXCEPT ![name] = GetAllValues(tree.subcharts[name])]
    /\ unitPc' = [unitPc EXCEPT ![name] = "computed"]
    /\ UNCHANGED <<tree, aggPc, allValues, toVisit, unitTodo, mu, wg, returned>>
    /\ UNCHANGED <<parserVars, normVars, genVars, hintVars, chartVars, tokVars, fileVars>>
    /\ childStrategy' = Put(childStrategy, name, strategyOf(tree.subcharts[name]))

\* a lock that is taken without waiting for its holder
UnitLockNoWait(name) ==
    /\ name \in DOMAIN unitPc
    /\ unitPc[name] = "computed"
    /\ mu' = name
    /\ unitTodo' = DOMAIN unitValues[name]
    /\ unitPc' = [unitPc EXCEPT ![name] = "locked"]
    /\ UNCHANGED <<tree, aggPc, allValues, toVisit, unitValues, wg, returned>>
    /\ UNCHANGED <<parserVars, normVars, genVars, hintVars, chartVars, tokVars, fileVars>>
    /\ UNCHANGED childStrategy

\* mu.Lock()
UnitLock(name) ==
    /\ name \in DOMAIN unitPc
    /\ unitPc[name] = "computed"
    /\ mu = Free
    /\ mu' = name
    /\ unitTodo' = DOMAIN unitValues[name]
    /\ unitPc' = [unitPc EXCEPT ![name] = "locked"]
    /\ UNCHANGED <<tree, aggPc, allValues, toVisit, unitValues, wg, returned>>
    /\ UNCHANGED <<parserVars, normVars, genVars, hintVars, chartVars, tokVars, fileVars>>
    /\ UNCHANGED childStrategy

\* one iteration of the goroutine's range loop over subchartValues
UnitWrite(name, path) ==
    /\ name \in DOMAIN unitPc
    /\ unitPc[name] = "locked"
    /\ path \in unitTodo
    /\ allValues' = Put(allValues, prefixedPath(name, path),
                        prefixedValuePath(name, path, unitValues[name][path]))
    /\ unitTodo' = unitTodo \ {path}
    /\ UNCHANGED <<tree, aggPc, toVisit, unitPc, unitValues, mu, wg, returned>>
    /\ UNCHANGED <<parserVars, normVars, genVars, hintVars, chartVars, tokVars, fileVars>>
    /\ UNCHANGED childStrategy

\* a goroutine that signals completion and keeps mu
UnitDoneKeepsLock(name) ==
    /\ name \in DOMAIN unitPc
    /\ unitPc[name] = "locked"
    /\ unitTodo = {}
    /\ wg' = wg - 1
    /\ unitPc' = [unitPc EXCEPT ![name] = "done"]
    /\ UNCHANGED <<tree, aggPc, allValues, toVisit, unitValues, unitTodo, mu, returned>>
    /\ UNCHANGED <<parserVars, normVars, genVars, hintVars, chartVars, tokVars, fileVars>>
    /\ UNCHANGED childStrategy

\* the deferred mu.Unlock() and wg.Done()
UnitDone(name) ==
    /\ name \in DOMAIN unitPc
    /\ unitPc[name] = "locked"
    /\ unitTodo = {}
    /\ mu' = Free
    /\ wg' = wg - 1
    /\ unitPc' = [unitPc EXCEPT ![name] = "done"]
    /\ UNCHANGED <<tree, aggPc, allValues, toVisit, unitValues, unitTodo, returned>>
    /\ UNCHANGED <<parserVars, normVars, genVars, hintVars, chartVars, tokVars, fileVars>>
    /\ UNCHANGED childStrategy

\* wg.Wait() passes; return allValues
ParReturn ==
    /\ aggPc = "par"
    /\ toVisit = {}
    /\ wg = 0
    /\ returned' = Put(returned, IF returned = EmptyMap THEN "first" ELSE "again", allValues)
    /\ aggPc' = "idle"
    /\ allValues' = EmptyMap
    /\ UNCHANGED <<tree, toVisit, unitPc, unitValues, unitTodo, mu, wg>>
    /\ UNCHANGED <<parserVars, normVars, genVars, hintVars, chartVars, tokVars, fileVars>>
    /\ UNCHANGED childStrategy

NextAgg ==
    \/ CallGetAllValues
    \/ CallGetAllValuesParallel
    \/ \E name \in DOMAIN tree.subcharts : SeqMerge(name)
    \/ SeqReturn
    \/ \E name \in DOMAIN tree.subcharts : Spawn(name)
    \/ \E name \in DOMAIN tree.subcharts : UnitCompute(name)
    \/ \E name \in DOMAIN tree.subcharts : UnitLock(name)
    \/ \E name \in DOMAIN tree.subcharts : \E path \in unitTodo : UnitWrite(name, path)
    \/ \E name \in DOMAIN tree.subcharts : UnitDone(name)
    \/ ParReturn

SpecAgg == InitAgg /\ [][NextAgg]_vars

\* the same under a scheduler that lets the caller and every goroutine that can
\* take a step take one
SpecAggFair == InitAgg /\ [][NextAgg]_vars /\ WF_vars(NextAgg)

----------------------------------------------------------------------------
(* The schema builder (pkg/schema).  A schema node is a map with some of    *)
(* the keys "type", "properties" and "items"; a properties map goes from    *)
(* property names to nodes.                                                 *)

\* the byte values sort.Strings compares
CharCode(c) ==
    CASE c = "." -> 46
      [] c = "[" -> 91
      [] c = "]" -> 93
      [] c = "a" -> 97
      [] c = "b" -> 98
      [] c = "c" -> 99

\* s < t as Go compares strings
RECURSIVE StringLess(_, _)
StringLess(s, t) ==
    IF t = << >> THEN FALSE
    ELSE IF s = << >> THEN TRUE
    ELSE IF CharCode(Head(s)) # CharCode(Head(t)) THEN CharCode(Head(s)) < CharCode(Head(t))
    ELSE StringLess(Tail(s), Tail(t))

\* sort.Strings(paths)
RECURSIVE SortStrings(_)
SortStrings(S) ==
    IF S = {} THEN << >>
    ELSE LET least == CHOOSE x \in S : \A y \in S \ {x} : StringLess(x, y)
         IN <<least>> \o SortStrings(S \ {least})

\* getArrayItemType
getArrayItemType(arrayType) == IF arrayType = "array" THEN "object" ELSE "string"

\* the property name of an array segment, the marker left on
arrayPartUntrimmed(part) == part

\* part = strings.TrimSuffix(part, "[]")
arrayPart(part) == TrimSuffix(part, ArrayMarker)

\* the outcome of a walk: the properties map as the walk leaves it, or a failed
\* type assertion
Walked(props) == [ok |-> TRUE, props |-> props]
Panicked == [ok |-> FALSE, props |-> EmptyMap]

\* items of an array node on the way to a nested property: typed "object" with a
\* properties map when untyped, given a properties map when it has none
itemsForNesting(items) ==
    LET typed == IF "type" \notin DOMAIN items
                 THEN Put(Put(items, "type", "object"), "properties", EmptyMap)
                 ELSE items
    IN IF "properties" \in DOMAIN typed THEN typed ELSE Put(typed, "properties", EmptyMap)

\* an existing node on the way to a nested property: typed "object", given a
\* properties map when it has none
objectForNesting(obj) ==
    LET typed == Put(obj, "type", "object")
    IN IF "properties" \in DOMAIN typed THEN typed ELSE Put(typed, "properties", EmptyMap)

\* the for loop of addPropertyToSchema from segment i on, current being the map the
\* walk stands in; yields current as the walk leaves it
RECURSIVE walkParts(_, _, _, _)
walkParts(current, parts, i, valuePath) ==
    IF HasSuffix(parts[i], ArrayMarker)
    THEN LET part == arrayPart(parts[i])
             created == IF part \in DOMAIN current THEN current
                        ELSE Put(current, part, [type |-> "array", items |-> EmptyMap])
             arrayProp == created[part]
         IN IF "items" \notin DOMAIN arrayProp THEN Panicked
            ELSE IF i = Len(parts)
            THEN Walked(Put(created, part,
                     Put(arrayProp, "items",
                         Put(arrayProp["items"], "type", getArrayItemType(valuePath.Type)))))
            ELSE LET items == itemsForNesting(arrayProp["items"])
                     below == walkParts(items["properties"], parts, i + 1, valuePath)
                 IN IF below.ok
                    THEN Walked(Put(created, part,
                             Put(arrayProp, "items", Put(items, "properties", below.props))))
                    ELSE Panicked
    ELSE LET part == parts[i]
         IN IF i = Len(parts)
            THEN Walked(Put(current, part, [type |-> valuePath.Type]))
            ELSE LET obj == IF part \in DOMAIN current
                            THEN objectForNesting(current[part])
                            ELSE [type |-> "object", properties |-> EmptyMap]
                     below == walkParts(obj["properties"], parts, i + 1, valuePath)
                 IN IF below.ok
                    THEN Walked(Put(current, part, Put(obj, "properties", below.props)))
                    ELSE Panicked

\* addPropertyToSchema(properties, path, valuePath)
addPropertyToSchema(props, path, valuePath) == walkParts(props, Split(path), 1, valuePath)

----------------------------------------------------------------------------
(* Specification SpecGen: Generate on one path table.                       *)

GenA == <<"a">>
GenAB == <<"a", ".", "b">>
GenAArr == <<"a", "[", "]">>
GenAArrB == <<"a", "[", "]", ".", "b">>
GenBArrC == <<"b", "[", "]", ".", "c">>
GenC == <<"c">>

\* the paths a table is drawn from
GenPaths == {GenA, GenAB, GenAArr, GenAArrB, GenBArrC, GenC}

\* the kinds of ValuePath.Type
GenKinds == {"unknown", "object", "array", "map"}

\* the most entries of a table
MaxTablePaths == 3

GenTables ==
    UNION {[P -> GenKinds] : P \in {Q \in SUBSET GenPaths : Cardinality(Q) <= MaxTablePaths}}

InitGen ==
    /\ genValues \in {[p \in DOMAIN kinds |-> ValuePath(p, kinds[p])] : kinds \in GenTables}
    /\ genPc = "idle"
    /\ paths = << >>
    /\ properties = EmptyMap
    /\ lastAdded = << >>
    /\ ParserIdle
    /\ NormIdle
    /\ AggIdle
    /\ HintIdle
    /\ ChartIdle
    /\ TokIdle
    /\ FilesIdle

\* Generate up to the loop: the schema skeleton and the sorted paths
GenerateBegin ==
    /\ genPc = "idle"
    /\ genPc' = "loop"
    /\ properties' = EmptyMap
    /\ paths' = SortStrings(DOMAIN genValues)
    /\ UNCHANGED <<genValues, lastAdded>>
    /\ UNCHANGED <<parserVars, normVars, aggVars, hintVars, chartVars, tokVars, fileVars>>

\* one iteration of the loop: addPropertyToSchema(properties, path, values[path])
AddProperty ==
    /\ genPc = "loop"
    /\ paths # << >>
    /\ LET path == Head(paths)
           walked == addPropertyToSchema(properties, path, genValues[path])
       IN /\ walked.ok
          /\ properties' = walked.props
          /\ lastAdded' = path
    /\ paths' = Tail(paths)
    /\ UNCHANGED <<genValues, genPc>>
    /\ UNCHANGED <<parserVars, normVars, aggVars, hintVars, chartVars, tokVars, fileVars>>

\* an iteration whose addPropertyToSchema call fails a type assertion
AddPropertyPanics ==
    /\ genPc = "loop"
    /\ paths # << >>
    /\ ~addPropertyToSchema(properties, Head(paths), genValues[Head(paths)]).ok
    /\ genPc' = "panic"
    /\ lastAdded' = Head(paths)
    /\ UNCHANGED <<genValues, paths, properties>>
    /\ UNCHANGED <<parserVars, normVars, aggVars, hintVars, chartVars, tokVars, fileVars>>

\* return schema
GenerateReturn ==
    /\ genPc = "loop"
    /\ paths = << >>
    /\ genPc' = "done"
    /\ UNCHANGED <<genValues, paths, properties, lastAdded>>
    /\ UNCHANGED <<parserVars, normVars, aggVars, hintVars, chartVars, tokVars, fileVars>>

NextGen ==
    \/ GenerateBegin
    \/ AddProperty
    \/ AddPropertyPanics
    \/ GenerateReturn

SpecGen == InitGen /\ [][NextGen]_vars

----------------------------------------------------------------------------
(* The usage-hint analyzer (the parser revision that classifies a path by   *)
(* the pipelines it is used in).  A token is a string, i.e. a sequence of   *)
(* characters; a tokenized pipeline is a sequence of tokens.                *)

TokRange == <<"r", "a", "n", "g", "e">>
TokComma == <<",">>
TokAssign == <<":", "=">>
TokPipe == <<"|">>
TokKeys == <<"k", "e", "y", "s">>
TokValues == <<"v", "a", "l", "u", "e", "s">>
TokHasKey == <<"h", "a", "s", "K", "e", "y">>
TokLen == <<"l", "e", "n">>
TokIndex == <<"i", "n", "d", "e", "x">>
TokAppend == <<"a", "p", "p", "e", "n", "d">>
TokFirst == <<"f", "i", "r", "s", "t">>
TokLast == <<"l", "a", "s", "t">>
TokK == <<"$", "k">>
TokV == <<"$", "v">>

\* ".Values."
ValuesDot == <<".", "V", "a", "l", "u", "e", "s", ".">>

\* strings.Contains(s, sub)
Contains(s, sub) ==
    \E i \in 1 .. (Len(s) - Len(sub) + 1) : SubSeq(s, i, i + Len(sub) - 1) = sub

\* findTokenIndex, counted from 1, 0 when the token is not there
findTokenIndex(tokens, target) ==
    IF \E i \in 1 .. Len(tokens) : tokens[i] = target
    THEN CHOOSE i \in 1 .. Len(tokens) :
            tokens[i] = target /\ \A j \in 1 .. (i - 1) : tokens[j] # target
    ELSE 0

\* the function names after which a reference is a map operation
MapFuncs == {TokKeys, TokValues, TokHasKey}

\* the function names after which a reference is an array operation
ArrayFuncs == {TokLen, TokIndex, TokAppend}

\* the function names a reference is piped into as an array operation, were they
\* the names that may stand before it
ArrayPipeFuncsAsBefore == {TokLen, TokIndex, TokAppend}

\* the function names a reference is piped into as an array operation
ArrayPipeFuncs == {TokLen, TokFirst, TokLast}

\* the body of analyzePipelineTokens' loop at an occurrence i of targetPath: the
\* hints after it, and whether the function returns there
analyzeOccurrence(tokens, i, h) ==
    LET rangeIndex == findTokenIndex(tokens, TokRange)
        assignIndex == findTokenIndex(tokens, TokAssign)
        inRange == rangeIndex # 0 /\ rangeIndex < i
        mapIteration ==
            /\ inRange
            /\ assignIndex # 0
            /\ assignIndex < i
            /\ \E j \in rangeIndex .. (assignIndex - 1) : tokens[j] = TokComma
        before == IF i > 1 THEN tokens[i - 1] ELSE << >>
        piped == i < Len(tokens) /\ tokens[i + 1] = TokPipe /\ i < Len(tokens) - 1
        pipeFunc == IF piped THEN tokens[i + 2] ELSE << >>
    IN IF mapIteration
       THEN [hints |-> [h EXCEPT !.hasMapIteration = TRUE], returns |-> TRUE]
       ELSE [hints |->
               [hasMapIteration |-> h.hasMapIteration,
                hasArrayIteration |-> h.hasArrayIteration \/ inRange,
                hasMapOperations |->
                    \/ h.hasMapOperations
                    \/ before \in MapFuncs
                    \/ pipeFunc \in MapFuncs,
                hasArrayOperations |->
                    \/ h.hasArrayOperations
                    \/ before \in ArrayFuncs
                    \/ pipeFunc \in ArrayPipeFuncs],
             returns |-> FALSE]

\* analyzePipelineTokens from token i on
RECURSIVE analyzeFrom(_, _, _, _)
analyzeFrom(tokens, i, targetPath, h) ==
    IF i > Len(tokens) THEN h
    ELSE IF tokens[i] # targetPath THEN analyzeFrom(tokens, i + 1, targetPath, h)
    ELSE LET at == analyzeOccurrence(tokens, i, h)
         IN IF at.returns THEN at.hints
            ELSE analyzeFrom(tokens, i + 1, targetPath, at.hints)

\* analyzePipelineTokens(tokens, targetPath, &hints)
analyzePipelineTokens(tokens, targetPath, h) == analyzeFrom(tokens, 1, targetPath, h)

\* the classification with the array hints looked at before the map hints
classifyArrayFirst(path, h) ==
    IF Contains(path, ArrayMarker) THEN "array"
    ELSE IF h.hasArrayIteration \/ h.hasArrayOperations THEN "array"
    ELSE IF h.hasMapIteration \/ h.hasMapOperations THEN "map"
    ELSE "primitive"

\* inferTypeFromHints(content, path) once extractPipelineHints has returned h
classify(path, h) ==
    IF Contains(path, ArrayMarker) THEN "array"
    ELSE IF h.hasMapIteration \/ h.hasMapOperations THEN "map"
    ELSE IF h.hasArrayIteration \/ h.hasArrayOperations THEN "array"
    ELSE "primitive"

----------------------------------------------------------------------------
(* Specification SpecHints: inferTypeFromHints(content, path) on a content  *)
(* of pipelines that mention a reference once, each given by what stands    *)
(* before the reference, the referenced path, and what stands after it.     *)

Pipeline(pre, ref, post) == [pre |-> pre, ref |-> ref, post |-> post]

\* the tokens of the pipeline
Tokens(p) == p.pre \o <<ValuesDot \o p.ref>> \o p.post

HintFuncs == {TokKeys, TokLen, TokIndex, TokAppend, TokFirst, TokLast}

PreTokens ==
    {<< >>, <<TokRange>>, <<TokRange, TokK, TokAssign>>,
     <<TokRange, TokK, TokComma, TokV, TokAssign>>}
    \cup {<<f>> : f \in HintFuncs}

PostTokens == {<< >>} \cup {<<TokPipe, f>> : f \in HintFuncs} \cup {<<TokPipe>>}

MarkedA == <<"a", "[", "]">>

\* pipelines on .Values.a, and one each on .Values.b and on the text .Values.a[]
HintPipelines ==
    {Pipeline(pre, RawA, post) : pre \in PreTokens, post \in PostTokens}
    \cup {Pipeline(<<TokKeys>>, RawB, << >>), Pipeline(<<TokKeys>>, MarkedA, <<TokPipe, TokLen>>)}

HintPaths == {RawA, MarkedA}

\* the most pipelines of a content
MaxPipelines == 2

InitHints ==
    /\ hintPath \in HintPaths
    /\ hints = NoHints
    /\ seen = {}
    /\ hintKind = ""
    /\ hintPc = "loop"
    /\ ParserIdle
    /\ NormIdle
    /\ AggIdle
    /\ GenIdle
    /\ ChartIdle
    /\ TokIdle
    /\ FilesIdle

\* one iteration of extractPipelineHints' loop over the pipelines of content
AnalyzePipeline(p) ==
    /\ hintPc = "loop"
    /\ Cardinality(seen) < MaxPipelines
    /\ p \notin seen
    /\ hints' = analyzePipelineTokens(Tokens(p), ValuesDot \o hintPath, hints)
    /\ seen' = seen \cup {p}
    /\ UNCHANGED <<hintPath, hintKind, hintPc>>
    /\ UNCHANGED <<parserVars, normVars, aggVars, genVars, chartVars, tokVars, fileVars>>

\* inferTypeFromHints returns
InferType ==
    /\ hintPc = "loop"
    /\ hintKind' = classify(hintPath, hints)
    /\ hintPc' = "done"
    /\ UNCHANGED <<hintPath, hints, seen>>
    /\ UNCHANGED <<parserVars, normVars, aggVars, genVars, chartVars, tokVars, fileVars>>

NextHints ==
    \/ \E p \in HintPipelines : AnalyzePipeline(p)
    \/ InferType

SpecHints == InitHints /\ [][NextHints]_vars

----------------------------------------------------------------------------
(* tokenizePipeline (part_002), one iteration of its range loop per step.    *)

\* the characters the switch treats as separators outside quotes
Separators == {" ", "\t", "\n", ",", ":", "=", "|"}

QuoteChars == {"\"", "'"}

\* the white space of strings.TrimSpace that a string of the model can hold
WhiteSpace == {" ", "\t", "\n", "\r"}

RECURSIVE TrimSpace(_)
TrimSpace(s) ==
    IF s = << >> THEN s
    ELSE IF Head(s) \in WhiteSpace THEN TrimSpace(Tail(s))
    ELSE IF s[Len(s)] \in WhiteSpace THEN TrimSpace(SubSeq(s, 1, Len(s) - 1))
    ELSE s

\* if current != "" { tokens = append(tokens, strings.TrimSpace(current)) }
Flushed(cur, toks) == IF cur = << >> THEN toks ELSE Append(toks, TrimSpace(cur))

\* the tokens after the separator r at position i: current flushed, then "," and
\* "|" and a ":" before "=" appended, and an "=" after ":" joined to it
afterSeparator(pipeline, i, r, cur, toks) ==
    LET flushed == Flushed(cur, toks)
    IN IF r = "," \/ r = "|" \/ (r = ":" /\ i < Len(pipeline) /\ pipeline[i + 1] = "=")
       THEN Append(flushed, <<r>>)
       ELSE IF r = "=" /\ i > 1 /\ pipeline[i - 1] = ":"
       THEN IF flushed # << >> /\ flushed[Len(flushed)] = <<":">>
            THEN [flushed EXCEPT ![Len(flushed)] = TokAssign]
            ELSE flushed
       ELSE flushed

\* the end of the iteration: at the last position a non-empty current is flushed
atEndOfString(pipeline, i, cur, toks) ==
    IF i = Len(pipeline) THEN Flushed(cur, toks) ELSE toks

----------------------------------------------------------------------------
(* Specification SpecTok: tokenizePipeline on one pipeline text.            *)

\* the characters of a pipeline text: a letter, a space, the special
\* characters, both quotes, a carriage return
TokAlphabet == {"a", " ", ",", "|", ":", "=", "\"", "'", "\r"}

\* the longest pipeline text
MaxPipelineLen == 4

InitTok ==
    /\ tokPipeline \in SeqsUpTo(TokAlphabet, MaxPipelineLen)
    /\ tokI = 1
    /\ tokCurrent = << >>
    /\ tokInQuotes = FALSE
    /\ tokTokens = << >>
    /\ tokPc = "loop"
    /\ ParserIdle
    /\ NormIdle
    /\ AggIdle
    /\ GenIdle
    /\ HintIdle
    /\ ChartIdle
    /\ FilesIdle

\* case r == '"' || r == '\''
TokenizeQuote ==
    /\ tokPc = "loop" /\ tokI <= Len(tokPipeline)
    /\ tokPipeline[tokI] \in QuoteChars
    /\ tokInQuotes' = ~tokInQuotes
    /\ tokCurrent' = Append(tokCurrent, tokPipeline[tokI])
    /\ tokTokens' = atEndOfString(tokPipeline, tokI, tokCurrent', tokTokens)
    /\ tokI' = tokI + 1
    /\ UNCHANGED <<tokPipeline, tokPc>>
    /\ UNCHANGED <<parserVars, normVars, aggVars, genVars, hintVars, chartVars, fileVars>>

\* case !inQuotes && (r is white space or one of , : = |)
TokenizeSeparator ==
    /\ tokPc = "loop" /\ tokI <= Len(tokPipeline)
    /\ tokPipeline[tokI] \notin QuoteChars
    /\ ~tokInQuotes /\ tokPipeline[tokI] \in Separators
    /\ tokCurrent' = << >>
    /\ tokTokens' = atEndOfString(tokPipeline, tokI, << >>,
                        afterSeparator(tokPipeline, tokI, tokPipeline[tokI],
                                       tokCurrent, tokTokens))
    /\ tokI' = tokI + 1
    /\ UNCHANGED <<tokPipeline, tokInQuotes, tokPc>>
    /\ UNCHANGED <<parserVars, normVars, aggVars, genVars, hintVars, chartVars, fileVars>>

\* default: current += string(r)
TokenizeOther ==
    /\ tokPc = "loop" /\ tokI <= Len(tokPipeline)
    /\ tokPipeline[tokI] \notin QuoteChars
    /\ ~(~tokInQuotes /\ tokPipeline[tokI] \in Separators)
    /\ tokCurrent' = Append(tokCurrent, tokPipeline[tokI])
    /\ tokTokens' = atEndOfString(tokPipeline, tokI, tokCurrent', tokTokens)
    /\ tokI' = tokI + 1
    /\ UNCHANGED <<tokPipeline, tokInQuotes, tokPc>>
    /\ UNCHANGED <<parserVars, normVars, aggVars, genVars, hintVars, chartVars, fileVars>>

\* return tokens
TokenizeReturn ==
    /\ tokPc = "loop" /\ tokI > Len(tokPipeline)
    /\ tokPc' = "done"
    /\ UNCHANGED <<tokPipeline, tokI, tokCurrent, tokInQuotes, tokTokens>>
    /\ UNCHANGED <<parserVars, normVars, aggVars, genVars, hintVars, chartVars, fileVars>>

NextTok ==
    \/ TokenizeQuote
    \/ TokenizeSeparator
    \/ TokenizeOther
    \/ TokenizeReturn

SpecTok == InitTok /\ [][NextTok]_vars

----------------------------------------------------------------------------
(* Chart directories.  A chart has template files (each readable or not),    *)
(* a Chart.yaml that parses or not, and the dependencies Chart.yaml lists;   *)
(* a dependency has a name, is local or remote, and its resolved directory   *)
(* is absent, is no chart, or is a chart.                                    *)

Readable(text) == [readable |-> TRUE, text |-> text]
Unreadable == [readable |-> FALSE, text |-> << >>]

Chart(files, meta, deps) == [files |-> files, meta |-> meta, deps |-> deps]

NoChart == Chart(<< >>, "ok", << >>)
Absent == [state |-> "absent", chart |-> NoChart]
Invalid == [state |-> "invalid", chart |-> NoChart]
Present(c) == [state |-> "chart", chart |-> c]

Dep(name, remote, dir) == [name |-> name, remote |-> remote, dir |-> dir]

\* templates/ of a chart: nothing, {{ .Values.a.b }}, {{ .Values.b }},
\* {{ .Values.a }} with {{ .Values.a[0].b }}, a file that cannot be read
NoFiles == << >>
FilesAB == <<Readable(<<Direct(RawAB, "plain")>>)>>
FilesB == <<Readable(<<Direct(RawB, "plain")>>)>>
FilesAA0B == <<Readable(<<Direct(RawA, "plain"), Direct(RawA0B, "plain")>>)>>
FilesUnreadable == <<Unreadable>>

\* a chart whose only value paths are its subchart's
ChartOverB == Chart(NoFiles, "ok", <<Dep(<<"a">>, FALSE, Present(Chart(FilesB, "ok", << >>)))>>)

\* a chart with a remote dependency of its own
ChartRemoteB == Chart(FilesB, "ok", <<Dep(<<"a">>, TRUE, Present(Chart(FilesB, "ok", << >>)))>>)

\* a chart whose subchart has a template file that cannot be read
ChartOverUnreadable ==
    Chart(NoFiles, "ok", <<Dep(<<"a">>, FALSE, Present(Chart(FilesUnreadable, "ok", << >>)))>>)

\* what a local dependency's directory can be
LocalDirs ==
    {Absent, Invalid,
     Present(Chart(FilesB, "ok", << >>)),
     Present(Chart(NoFiles, "ok", << >>)),
     Present(Chart(FilesUnreadable, "ok", << >>)),
     Present(Chart(FilesB, "bad", <<Dep(<<"a">>, FALSE, Absent)>>)),
     Present(ChartOverB),
     Present(ChartRemoteB),
     Present(ChartOverUnreadable)}

\* what a remote dependency's directory can be once the build step has run
RemoteDirs == {Absent, Present(Chart(FilesB, "ok", << >>))}

DepShapes ==
    {[remote |-> FALSE, dir |-> d] : d \in LocalDirs}
    \cup {[remote |-> TRUE, dir |-> d] : d \in RemoteDirs}

\* the names the first, second, ... dependency of the root chart can have: the
\* first is named like the root's own top-level key, the second like the
\* first or not
DepNames == <<{<<"a">>}, {<<"a">>, <<"c">>}, {<<"b">>}>>

\* the most dependencies of the root chart
MaxDeps == 2

DepLists ==
    UNION {{[i \in 1 .. k |-> Dep(names[i], shapes[i].remote, shapes[i].dir)] :
              shapes \in [1 .. k -> DepShapes],
              names \in {n \in [1 .. k -> UNION {DepNames[i] : i \in 1 .. k}] :
                            \A i \in 1 .. k : n[i] \in DepNames[i]}} :
           k \in 0 .. MaxDeps}

\* the chart directories chartToSchema is given, with the flag and with helm
\* working, missing, or failing to build
ChartInputs ==
    {[valid |-> TRUE, meta |-> meta, files |-> files, deps |-> deps,
      include |-> include, helm |-> helm] :
        meta \in {"ok", "bad"}, files \in {NoFiles, FilesAB, FilesAA0B}, deps \in DepLists,
        include \in BOOLEAN, helm \in {"ok", "missing", "fails"}}
    \cup {[valid |-> TRUE, meta |-> "ok", files |-> FilesUnreadable, deps |-> << >>,
           include |-> TRUE, helm |-> "ok"],
          [valid |-> FALSE, meta |-> "ok", files |-> << >>, deps |-> << >>,
           include |-> TRUE, helm |-> "ok"]}

----------------------------------------------------------------------------
(* ParseChartWithOptions, one call per frame of the stack.                  *)

\* the frame of a call on a chart: a new parser, the template files found
Frame(chart, include) ==
    [chart |-> chart, include |-> include, pc |-> "files", files |-> chart.files,
     deps |-> << >>, values |-> EmptyMap, variables |-> EmptyMap, subcharts |-> EmptyMap]

Top == stack[Len(stack)]
Depth == Len(stack)

Event(ev) == [ev |-> ev, depth |-> Depth]

\* the stack with its innermost frame replaced
WithTop(f) == [stack EXCEPT ![Len(stack)] = f]

\* the stack after the innermost call returned
Popped == SubSeq(stack, 1, Len(stack) - 1)

Returned(state) == [state |-> state, parser |-> Parser(Top.values, Top.subcharts)]

\* subchart traversal entered whatever the flag says
afterTemplatesAlways(includeSubcharts) == "remote"

\* if !includeSubcharts { return nil }
afterTemplates(includeSubcharts) == IF includeSubcharts THEN "remote" ELSE "return"

\* a dependency whose directory fails validation ends the parse with an error
depOutcomeStrict(dir) == IF dir.state = "chart" THEN "enter" ELSE "fail"

\* ValidateChartDirectory(subchartPath) != nil: continue
depOutcome(dir) == IF dir.state = "chart" THEN "enter" ELSE "skip"

\* tp.ParseTemplateFile(templateFile) returns nil
ParseChartFile ==
    /\ cliPc = "parsing" /\ stack # << >>
    /\ Top.pc = "files" /\ Top.files # << >>
    /\ Head(Top.files).readable
    /\ LET text == Head(Top.files).text
       IN stack' = WithTop([Top EXCEPT
              !.files = Tail(Top.files),
              !.variables = IF IsBlank(text) THEN @ ELSE parsedVariables(@, text),
              !.values = IF IsBlank(text) THEN @
                         ELSE parsedValues(@, Top.variables, text)])
    /\ trace' = Append(trace, Event("file"))
    /\ UNCHANGED <<chartIn, ret, cliPc, schemas, output>>
    /\ UNCHANGED <<parserVars, normVars, aggVars, genVars, hintVars, tokVars, fileVars>>

\* tp.ParseTemplateFile(templateFile) returns an error
ParseChartFileFails ==
    /\ cliPc = "parsing" /\ stack # << >>
    /\ Top.pc = "files" /\ Top.files # << >>
    /\ ~Head(Top.files).readable
    /\ stack' = Popped
    /\ ret' = Returned("err")
    /\ trace' = Append(trace, Event("fileError"))
    /\ UNCHANGED <<chartIn, cliPc, schemas, output>>
    /\ UNCHANGED <<parserVars, normVars, aggVars, genVars, hintVars, tokVars, fileVars>>

\* the template files are parsed: return nil without subcharts, go on with them
TemplatesDone ==
    /\ cliPc = "parsing" /\ stack # << >>
    /\ Top.pc = "files" /\ Top.files = << >>
    /\ IF afterTemplates(Top.include) = "return"
       THEN /\ stack' = Popped
            /\ ret' = Returned("ok")
            /\ trace' = Append(trace, Event("return"))
       ELSE /\ stack' = WithTop([Top EXCEPT !.pc = "remote"])
            /\ trace' = trace
            /\ ret' = ret
    /\ UNCHANGED <<chartIn, cliPc, schemas, output>>
    /\ UNCHANGED <<parserVars, normVars, aggVars, genVars, hintVars, tokVars, fileVars>>

\* any dependency counts as remote
HasAnyDependencies(deps) == deps # << >>

\* the loop of HasRemoteDependencies over metadata.Dependencies
HasRemoteDependencies(deps) == \E i \in 1 .. Len(deps) : deps[i].remote

\* helm.HasRemoteDependencies(chartPath)
QueryRemote ==
    /\ cliPc = "parsing" /\ stack # << >>
    /\ Top.pc = "remote"
    /\ trace' = Append(trace, Event("remoteQuery"))
    /\ IF Top.chart.meta # "ok"
       THEN /\ stack' = Popped
            /\ ret' = Returned("err")
       ELSE /\ stack' = WithTop([Top EXCEPT !.pc =
                 IF HasRemoteDependencies(Top.chart.deps) THEN "helm" ELSE "find"])
            /\ ret' = ret
    /\ UNCHANGED <<chartIn, cliPc, schemas, output>>
    /\ UNCHANGED <<parserVars, normVars, aggVars, genVars, hintVars, tokVars, fileVars>>

\* helm.EnsureHelmAvailable()
EnsureHelm ==
    /\ cliPc = "parsing" /\ stack # << >>
    /\ Top.pc = "helm"
    /\ trace' = Append(trace, Event("ensureHelm"))
    /\ IF chartIn.helm = "missing"
       THEN /\ stack' = Popped
            /\ ret' = Returned("err")
       ELSE /\ stack' = WithTop([Top EXCEPT !.pc = "build"])
            /\ ret' = ret
    /\ UNCHANGED <<chartIn, cliPc, schemas, output>>
    /\ UNCHANGED <<parserVars, normVars, aggVars, genVars, hintVars, tokVars, fileVars>>

\* helm.BuildDependencies(chartPath)
BuildDeps ==
    /\ cliPc = "parsing" /\ stack # << >>
    /\ Top.pc = "build"
    /\ trace' = Append(trace, Event("build"))
    /\ IF chartIn.helm = "fails"
       THEN /\ stack' = Popped
            /\ ret' = Returned("err")
       ELSE /\ stack' = WithTop([Top EXCEPT !.pc = "find"])
            /\ ret' = ret
    /\ UNCHANGED <<chartIn, cliPc, schemas, output>>
    /\ UNCHANGED <<parserVars, normVars, aggVars, genVars, hintVars, tokVars, fileVars>>

\* helm.FindAllSubcharts(chartPath)
FindAll ==
    /\ cliPc = "parsing" /\ stack # << >>
    /\ Top.pc = "find"
    /\ trace' = Append(trace, Event("findAll"))
    /\ IF Top.chart.meta # "ok"
       THEN /\ stack' = Popped
            /\ ret' = Returned("err")
       ELSE /\ stack' = WithTop([Top EXCEPT !.pc = "deps", !.deps = Top.chart.deps])
            /\ ret' = ret
    /\ UNCHANGED <<chartIn, cliPc, schemas, output>>
    /\ UNCHANGED <<parserVars, normVars, aggVars, genVars, hintVars, tokVars, fileVars>>

\* one dependency of the loop: validate its directory, then skip it or parse it
VisitDep ==
    /\ cliPc = "parsing" /\ stack # << >>
    /\ Top.pc = "deps" /\ Top.deps # << >>
    /\ LET dep == Head(Top.deps)
           outcome == depOutcome(dep.dir)
       IN CASE outcome = "skip" ->
                 /\ stack' = WithTop([Top EXCEPT !.deps = Tail(Top.deps)])
                 /\ trace' = Append(trace, Event("skip"))
                 /\ ret' = ret
            [] outcome = "enter" ->
                 /\ stack' = Append(WithTop([Top EXCEPT !.pc = "wait"]),
                                    Frame(dep.dir.chart, TRUE))
                 /\ trace' = Append(trace, Event("enter"))
                 /\ ret' = ret
            [] outcome = "fail" ->
                 /\ stack' = Popped
                 /\ trace' = Append(trace, Event("depError"))
                 /\ ret' = Returned("err")
    /\ UNCHANGED <<chartIn, cliPc, schemas, output>>
    /\ UNCHANGED <<parserVars, normVars, aggVars, genVars, hintVars, tokVars, fileVars>>

\* the subchart's ParseChartWithOptions returned nil: tp.subcharts[dep.Name] = it
ChildParsed ==
    /\ cliPc = "parsing" /\ stack # << >>
    /\ Top.pc = "wait" /\ ret.state = "ok"
    /\ stack' = WithTop([Top EXCEPT
           !.pc = "deps",
           !.deps = Tail(Top.deps),
           !.subcharts = Put(@, Head(Top.deps).name, ret.parser)])
    /\ ret' = NoReturn
    /\ trace' = Append(trace, Event("record"))
    /\ UNCHANGED <<chartIn, cliPc, schemas, output>>
    /\ UNCHANGED <<parserVars, normVars, aggVars, genVars, hintVars, tokVars, fileVars>>

\* the subchart's error is dropped and the loop goes on without the subchart
ChildFailedContinues ==
    /\ cliPc = "parsing" /\ stack # << >>
    /\ Top.pc = "wait" /\ ret.state = "err"
    /\ stack' = WithTop([Top EXCEPT !.pc = "deps", !.deps = Tail(Top.deps)])
    /\ ret' = NoReturn
    /\ trace' = Append(trace, Event("childError"))
    /\ UNCHANGED <<chartIn, cliPc, schemas, output>>
    /\ UNCHANGED <<parserVars, normVars, aggVars, genVars, hintVars, tokVars, fileVars>>

\* the subchart's ParseChartWithOptions returned an error: return it wrapped
ChildFailed ==
    /\ cliPc = "parsing" /\ stack # << >>
    /\ Top.pc = "wait" /\ ret.state = "err"
    /\ stack' = Popped
    /\ ret' = Returned("err")
    /\ trace' = Append(trace, Event("childError"))
    /\ UNCHANGED <<chartIn, cliPc, schemas, output>>
    /\ UNCHANGED <<parserVars, normVars, aggVars, genVars, hintVars, tokVars, fileVars>>

\* the loop over the dependencies is over: return nil
DepsDone ==
    /\ cliPc = "parsing" /\ stack # << >>
    /\ Top.pc = "deps" /\ Top.deps = << >>
    /\ stack' = Popped
    /\ ret' = Returned("ok")
    /\ trace' = Append(trace, Event("return"))
    /\ UNCHANGED <<chartIn, cliPc, schemas, output>>
    /\ UNCHANGED <<parserVars, normVars, aggVars, genVars, hintVars, tokVars, fileVars>>

----------------------------------------------------------------------------
(* chartToSchema: parse, GenerateChartSchemas, the empty check, MergeSchemas *)

SchemaUrl == "https://json-schema.org/draft/2020-12/schema"

\* the document skeleton of Generate and MergeSchemas around a properties map
Document(props) ==
    Put(Put(Put(EmptyMap, "$schema", SchemaUrl), "type", "object"), "properties", props)

\* the loop of Generate over the sorted paths
RECURSIVE addProperties(_, _, _)
addProperties(props, sorted, vals) ==
    IF sorted = << >> THEN Walked(props)
    ELSE LET walked == addPropertyToSchema(props, Head(sorted), vals[Head(sorted)])
         IN IF walked.ok THEN addProperties(walked.props, Tail(sorted), vals) ELSE Panicked

\* Generate(values): the properties of the document, or a failed type assertion
Generate(vals) == addProperties(EmptyMap, SortStrings(DOMAIN vals), vals)

ChartSchema(name, props) == [Name |-> name, Schema |-> Document(props)]

\* the orders a range over a map with these keys can take
Orders(S) ==
    {q \in SeqsUpTo(S, Cardinality(S)) :
        Len(q) = Cardinality(S) /\ \A i, j \in 1 .. Len(q) : i # j => q[i] # q[j]}

\* the subchart's properties put next to the main chart's
nestSubchartFlat(props, sub) ==
    LET subProps == sub.Schema["properties"]
    IN [k \in DOMAIN props \cup DOMAIN subProps |->
          IF k \in DOMAIN subProps THEN subProps[k] ELSE props[k]]

\* properties[subchartSchema.Name] = {"type": "object", "properties": subchartProps}
nestSubchart(props, sub) ==
    Put(props, sub.Name, [type |-> "object", properties |-> sub.Schema["properties"]])

RECURSIVE nestSubcharts(_, _)
nestSubcharts(props, subs) ==
    IF subs = << >> THEN props
    ELSE nestSubcharts(nestSubchart(props, Head(subs)), Tail(subs))

\* MergeSchemas(mainSchema, subchartSchemas)
MergeSchemas(main, subs) == Document(nestSubcharts(main.Schema["properties"], subs))

RECURSIVE sumProps(_)
sumProps(subs) ==
    IF subs = << >> THEN 0
    ELSE Cardinality(DOMAIN Head(subs).Schema["properties"]) + sumProps(Tail(subs))

\* a count that takes every subchart for one value
totalValuesPerSubchart(main, subs) ==
    Cardinality(DOMAIN main.Schema["properties"]) + Len(subs)

\* totalValues of chartToSchema
totalValues(main, subs) == Cardinality(DOMAIN main.Schema["properties"]) + sumProps(subs)

ErrorOutput(msg) == [kind |-> "error", error |-> msg, properties |-> EmptyMap]
DocumentOutput(doc) == [kind |-> "document", error |-> "", properties |-> doc["properties"]]

InitChart ==
    /\ chartIn \in ChartInputs
    /\ stack = << >>
    /\ ret = NoReturn
    /\ trace = << >>
    /\ cliPc = "start"
    /\ schemas = NoSchemas
    /\ output = NoOutput
    /\ ParserIdle
    /\ NormIdle
    /\ AggIdle
    /\ GenIdle
    /\ HintIdle
    /\ TokIdle
    /\ FilesIdle

\* helm.ValidateChartDirectory(absPath), parser.New(), p.ParseChartWithOptions(...)
CliStart ==
    /\ cliPc = "start"
    /\ IF chartIn.valid
       THEN /\ cliPc' = "parsing"
            /\ stack' = <<Frame(Chart(chartIn.files, chartIn.meta, chartIn.deps),
                                chartIn.include)>>
            /\ output' = output
       ELSE /\ cliPc' = "error"
            /\ stack' = stack
            /\ output' = ErrorOutput("chart directory")
    /\ UNCHANGED <<chartIn, ret, trace, schemas>>
    /\ UNCHANGED <<parserVars, normVars, aggVars, genVars, hintVars, tokVars, fileVars>>

\* ParseChartWithOptions returned an error
CliParseFailed ==
    /\ cliPc = "parsing" /\ stack = << >> /\ ret.state = "err"
    /\ cliPc' = "error"
    /\ output' = ErrorOutput("parsing chart")
    /\ UNCHANGED <<chartIn, stack, ret, trace, schemas>>
    /\ UNCHANGED <<parserVars, normVars, aggVars, genVars, hintVars, tokVars, fileVars>>

\* schema.GenerateChartSchemas(p)
CliGenerate ==
    /\ cliPc = "parsing" /\ stack = << >> /\ ret.state = "ok"
    /\ \E order \in Orders(DOMAIN ret.parser.subcharts) :
          LET main == Generate(ret.parser.values)
              sub(i) == Generate(ret.parser.subcharts[order[i]].values)
          IN IF main.ok /\ \A i \in 1 .. Len(order) : sub(i).ok
             THEN /\ cliPc' = "generated"
                  /\ schemas' = [main |-> ChartSchema(<<"m", "a", "i", "n">>, main.props),
                                 subs |-> [i \in 1 .. Len(order) |->
                                              ChartSchema(order[i], sub(i).props)]]
             ELSE /\ cliPc' = "panic"
                  /\ schemas' = schemas
    /\ UNCHANGED <<chartIn, stack, ret, trace, output>>
    /\ UNCHANGED <<parserVars, normVars, aggVars, genVars, hintVars, tokVars, fileVars>>

\* the empty check, then MergeSchemas and json.MarshalIndent
CliMerge ==
    /\ cliPc = "generated"
    /\ IF totalValues(schemas.main, schemas.subs) = 0
       THEN /\ cliPc' = "error"
            /\ output' = ErrorOutput("no value paths found")
       ELSE /\ cliPc' = "done"
            /\ output' = DocumentOutput(MergeSchemas(schemas.main, schemas.subs))
    /\ UNCHANGED <<chartIn, stack, ret, trace, schemas>>
    /\ UNCHANGED <<parserVars, normVars, aggVars, genVars, hintVars, tokVars, fileVars>>

NextChart ==
    \/ CliStart
    \/ ParseChartFile
    \/ ParseChartFileFails
    \/ TemplatesDone
    \/ QueryRemote
    \/ EnsureHelm
    \/ BuildDeps
    \/ FindAll
    \/ VisitDep
    \/ ChildParsed
    \/ ChildFailed
    \/ DepsDone
    \/ CliParseFailed
    \/ CliGenerate
    \/ CliMerge

SpecChart == InitChart /\ [][NextChart]_vars

----------------------------------------------------------------------------
(* Properties of chartToSchema and ParseChartWithOptions (SpecChart).        *)

\* chartToSchema has returned
CliReturned == cliPc \in {"done", "error", "panic"}

\* the events of the trace with this name
EventsNamed(ev) == {i \in DOMAIN trace : trace[i].ev = ev}

MainProps == schemas.main.Schema["properties"]

\* C15: when ParseChartWithOptions is called with includeSubcharts = false,
\* the parser's subchart map stays empty, neither the remote-dependency query
\* nor the helm availability check, the build step, the dependency listing or
\* any subchart parse is performed, and only the chart's own template files
\* are parsed.
TraversalDisabled ==
    (cliPc # "off" /\ ~chartIn.include) =>
        /\ \A i \in DOMAIN trace :
              trace[i].ev \in {"file", "fileError", "return"} /\ trace[i].depth = 1
        /\ Len(stack) <= 1
        /\ \A i \in DOMAIN stack : stack[i].subcharts = EmptyMap
        /\ ret.parser.subcharts = EmptyMap
        /\ ret.state = "ok" => Cardinality(EventsNamed("file")) = Len(chartIn.files)

\* a chart with template files, a remote and a present local dependency, parsed
\* without subcharts into a document
TraversalDisabledWitness ==
    /\ ~chartIn.include
    /\ cliPc = "done"
    /\ chartIn.files # << >>
    /\ \E i \in DOMAIN chartIn.deps : chartIn.deps[i].remote
    /\ \E i \in DOMAIN chartIn.deps :
          ~chartIn.deps[i].remote /\ chartIn.deps[i].dir.state = "chart"
    /\ ret.parser.values # EmptyMap

\* C13: a dependency whose directory is absent or fails validation raises no
\* error, records no subchart parser, and the loop goes on with the remaining
\* dependencies.
OptionalSubchartAbsence ==
    [][(/\ cliPc = "parsing" /\ stack # << >>
        /\ Top.pc = "deps" /\ Top.deps # << >>
        /\ Head(Top.deps).dir.state \in {"absent", "invalid"})
       => /\ Len(stack') = Len(stack)
          /\ stack'[Len(stack)].subcharts = Top.subcharts
          /\ stack'[Len(stack)].deps = Tail(Top.deps)
          /\ stack'[Len(stack)].pc = "deps"
          /\ ret'.state # "err"
          /\ cliPc' = "parsing"]_vars

\* a parse that skipped a dependency, then entered and recorded the next one,
\* and returned nil
OptionalSubchartWitness ==
    /\ stack = << >> /\ ret.state = "ok"
    /\ \E i \in EventsNamed("skip"), j \in EventsNamed("record") :
          i < j /\ trace[i].depth = 1 /\ trace[j].depth = 1
    /\ DOMAIN ret.parser.subcharts = {<<"c">>}

RECURSIVE NoValuesAnywhere(_)
NoValuesAnywhere(p) ==
    /\ p.values = EmptyMap
    /\ \A name \in DOMAIN p.subcharts : NoValuesAnywhere(p.subcharts[name])

\* C14: when the parse found no value path in the root chart nor in any
\* subchart of its tree, chartToSchema returns the "no value paths found" error
\* and no document.
EmptyResultIsError ==
    (CliReturned /\ stack = << >> /\ ret.state = "ok" /\ NoValuesAnywhere(ret.parser))
        => output = ErrorOutput("no value paths found")

\* a chart without value paths whose parse recorded a subchart without any
EmptyResultWitness ==
    /\ CliReturned /\ stack = << >> /\ ret.state = "ok"
    /\ NoValuesAnywhere(ret.parser)
    /\ ret.parser.subcharts # EmptyMap
    /\ output.kind = "error"

\* C11: the merged document has, for each subchart schema, a top-level
\* property named after the subchart, of type object, whose properties are
\* exactly the subchart's generated top-level properties.
ChildNesting ==
    cliPc = "done" =>
        \A i \in DOMAIN schemas.subs :
            /\ schemas.subs[i].Name \in DOMAIN output.properties
            /\ output.properties[schemas.subs[i].Name] =
                  [type |-> "object", properties |-> schemas.subs[i].Schema["properties"]]

\* a document merged from a main schema with properties and two subchart
\* schemas, one of them with properties
ChildNestingWitness ==
    /\ cliPc = "done"
    /\ MainProps # EmptyMap
    /\ Len(schemas.subs) = 2
    /\ \E i \in DOMAIN schemas.subs : schemas.subs[i].Schema["properties"] # EmptyMap

\* C12: every top-level property of the main schema is in the merged document
\* with the main schema's node, and the merged document has as many top-level
\* properties as the main schema has plus one per subchart schema.
RootPropertiesSurvive ==
    cliPc = "done" =>
        /\ \A k \in DOMAIN MainProps :
              k \in DOMAIN output.properties /\ output.properties[k] = MainProps[k]
        /\ Cardinality(DOMAIN output.properties) =
              Cardinality(DOMAIN MainProps) + Len(schemas.subs)

\* the events so far of the innermost call of ParseChartWithOptions: those at
\* its depth since the call was entered
CallEvents ==
    LET entered == {i \in DOMAIN trace :
                       trace[i].ev = "enter" /\ trace[i].depth = Depth - 1}
        start == IF entered = {} THEN 0
                 ELSE CHOOSE i \in entered : \A j \in entered : j <= i
    IN {i \in DOMAIN trace : i > start /\ trace[i].depth = Depth}

\* C23: in one call with subcharts enabled the build step runs only when a
\* declared dependency is remote, at most once, after all of the chart's
\* template files were parsed, and before any dependency is enumerated or any
\* subchart parser is created.
BuildStepOrdering ==
    [][(Len(trace') = Len(trace) + 1 /\ trace'[Len(trace')].ev = "build")
       => /\ stack # << >>
          /\ Top.include
          /\ \E i \in DOMAIN Top.chart.deps : Top.chart.deps[i].remote
          /\ Top.files = << >>
          /\ Cardinality({i \in CallEvents : trace[i].ev = "file"}) = Len(Top.chart.files)
          /\ Top.deps = << >>
          /\ Top.subcharts = EmptyMap
          /\ \A i \in CallEvents :
                trace[i].ev \notin {"build", "findAll", "skip", "enter", "record"}]_vars

\* a call that parsed its template file, built, then listed its dependencies
\* and entered a subchart
BuildStepWitness ==
    /\ stack = << >> /\ ret.state = "ok"
    /\ \E f \in EventsNamed("file"), b \in EventsNamed("build"),
          l \in EventsNamed("findAll"), e \in EventsNamed("enter") :
          /\ f < b /\ b < l /\ l < e
          /\ trace[f].depth = 1 /\ trace[b].depth = 1
          /\ trace[l].depth = 1 /\ trace[e].depth = 1

\* the step the innermost call is about to take fails: a template file cannot
\* be read, Chart.yaml cannot be read or parsed, helm is missing, or the build
\* fails
StepFails ==
    /\ cliPc = "parsing" /\ stack # << >>
    /\ \/ Top.pc = "files" /\ Top.files # << >> /\ ~Head(Top.files).readable
       \/ Top.pc \in {"remote", "find"} /\ Top.chart.meta # "ok"
       \/ Top.pc = "helm" /\ chartIn.helm = "missing"
       \/ Top.pc = "build" /\ chartIn.helm = "fails"

\* a subchart's call has returned an error to the innermost call
ChildReturnedError == cliPc = "parsing" /\ stack # << >> /\ ret.state = "err"

\* the innermost call returns an error with its tables as they are
ReturnsError ==
    /\ stack' = Popped
    /\ ret'.state = "err"
    /\ ret'.parser = Parser(Top.values, Top.subcharts)

\* C24: a failure to read a template file or Chart.yaml, of the build step or
\* of a subchart's parse makes every enclosing call return an error without
\* parsing another file or dependency or recording the failed subchart, and
\* chartToSchema return that error.
FatalErrorsAbort ==
    [][/\ StepFails => ReturnsError
       /\ ChildReturnedError =>
             /\ ReturnsError
             /\ trace' = Append(trace, Event("childError"))
       /\ (cliPc = "parsing" /\ stack = << >> /\ ret.state = "err") =>
             /\ cliPc' = "error"
             /\ output'.kind = "error"
             /\ trace' = trace]_vars

\* an unreadable template file two subcharts down ended the whole run
FatalErrorsWitness ==
    /\ cliPc = "error"
    /\ \E f \in EventsNamed("fileError"), c \in EventsNamed("childError"),
          r \in EventsNamed("childError") :
          /\ f < c /\ c < r
          /\ trace[f].depth = 3 /\ trace[c].depth = 2 /\ trace[r].depth = 1
          /\ r = Len(trace)

\* the walk along the segments of a path from segment i on reaches a node
RECURSIVE Reaches(_, _, _)
Reaches(props, parts, i) ==
    IF HasSuffix(parts[i], ArrayMarker)
    THEN LET part == TrimSuffix(parts[i], ArrayMarker)
         IN /\ part \in DOMAIN props
            /\ "items" \in DOMAIN props[part]
            /\ i < Len(parts) =>
                  /\ "properties" \in DOMAIN props[part]["items"]
                  /\ Reaches(props[part]["items"]["properties"], parts, i + 1)
    ELSE /\ parts[i] \in DOMAIN props
         /\ i < Len(parts) =>
               /\ "properties" \in DOMAIN props[parts[i]]
               /\ Reaches(props[parts[i]]["properties"], parts, i + 1)

\* every path of the parser and of the parsers below it is reached in props, a
\* subchart's under the property named after it
RECURSIVE Covered(_, _)
Covered(p, props) ==
    /\ \A path \in DOMAIN p.values : Reaches(props, Split(path), 1)
    /\ \A name \in DOMAIN p.subcharts :
          /\ name \in DOMAIN props
          /\ "properties" \in DOMAIN props[name]
          /\ Covered(p.subcharts[name], props[name]["properties"])

\* C25: every value path recorded in any parser of the tree is represented in
\* the document chartToSchema emits, under the chain of subchart names that
\* leads to its parser.
WholeTreeCoverage == cliPc = "done" => Covered(ret.parser, output.properties)

\* C26: Generate never fails a type assertion on a table the parser produced,
\* a table with a plain path and its array-marked form included.
GenerateNeverFaults == cliPc # "panic"

----------------------------------------------------------------------------
(* Properties of the aggregator (SpecAgg).                                  *)

RECURSIVE SumSizes(_, _)
SumSizes(tp, names) ==
    IF names = {} THEN 0
    ELSE LET name == CHOOSE n \in names : TRUE
         IN Cardinality(DOMAIN GetAllValues(tp.subcharts[name]))
              + SumSizes(tp, names \ {name})

\* C2: strategy independence.  Two calls on the same tree, the second one by the
\* concurrent fan-out, return the same table under every interleaving.
StrategyIndependence ==
    ({"first", "again"} \subseteq DOMAIN returned) => returned["first"] = returned["again"]

\* C3: content of the flattened table.  The returned table holds the node's own
\* entries under their own keys, for every subchart c and every entry e at p of
\* c's flattened table an entry at c.name + "." + p with that Path and e's kind,
\* required flag and default, and no other key.
FlattenedContent ==
    ("first" \in DOMAIN returned) =>
        LET r == returned["first"]
        IN /\ \A k \in DOMAIN tree.values : k \in DOMAIN r /\ r[k] = tree.values[k]
           /\ \A c \in DOMAIN tree.subcharts :
                 \A p \in DOMAIN GetAllValues(tree.subcharts[c]) :
                    LET e == GetAllValues(tree.subcharts[c])[p]
                        k == c \o <<".">> \o p
                    IN /\ k \in DOMAIN r
                       /\ r[k].Path = k
                       /\ r[k].Type = e.Type
                       /\ r[k].Required = e.Required
                       /\ r[k].Default = e.Default
           /\ \A k \in DOMAIN r :
                 \/ k \in DOMAIN tree.values
                 \/ \E c \in DOMAIN tree.subcharts :
                       \E p \in DOMAIN GetAllValues(tree.subcharts[c]) : k = c \o <<".">> \o p

\* C4: key disjointness.  The returned table has as many entries as the node's
\* own table and its subcharts' flattened tables together.
KeyDisjointness ==
    ("first" \in DOMAIN returned) =>
        Cardinality(DOMAIN returned["first"])
            = Cardinality(DOMAIN tree.values) + SumSizes(tree, DOMAIN tree.subcharts)

\* C16: mutual exclusion and join of the concurrent merge.  At most one goroutine
\* is inside the locked region, the merge target changes during the fan-out only
\* by a write of the goroutine that holds mu, and getAllValuesParallel returns
\* only when every subchart's goroutine has written its whole contribution.
MutualExclusionAndJoin ==
    [][/\ Cardinality({n \in DOMAIN unitPc' : unitPc'[n] = "locked"}) <= 1
       /\ (aggPc = "par" /\ aggPc' = "par" /\ allValues' # allValues)
             => /\ mu # Free
                /\ mu' = mu
                /\ unitPc[mu] = "locked"
                /\ \E p \in unitTodo :
                      /\ unitTodo' = unitTodo \ {p}
                      /\ \A k \in DOMAIN allValues' :
                            k = mu \o <<".">> \o p
                            \/ (k \in DOMAIN allValues /\ allValues'[k] = allValues[k])
       /\ (aggPc = "par" /\ aggPc' = "idle")
             => /\ mu = Free
                /\ \A c \in DOMAIN tree.subcharts :
                      /\ c \in DOMAIN unitPc
                      /\ unitPc[c] = "done"
                      /\ \A p \in DOMAIN unitValues[c] :
                            c \o <<".">> \o p \in DOMAIN allValues]_vars

\* two goroutines have flattened their subcharts, one of them holds mu and has
\* written part of its contribution, the other waits
MutualExclusionWitness ==
    /\ aggPc = "par"
    /\ mu # Free
    /\ unitTodo # {}
    /\ unitTodo # DOMAIN unitValues[mu]
    /\ \E n \in DOMAIN unitPc : n # mu /\ unitPc[n] = "computed"

\* C17: fan-out threshold.  GetAllValues merges concurrently exactly when the
\* parser has more than 5 subcharts, with one goroutine per direct subchart, and
\* every subchart's own call decides by that subchart's own count.
FanOutThresholdRule ==
    /\ (aggPc \in {"seq", "par"} /\ returned = EmptyMap)
          => (aggPc = "par" <=> Cardinality(DOMAIN tree.subcharts) > 5)
    /\ aggPc = "par"
          => /\ DOMAIN unitPc \cup toVisit = DOMAIN tree.subcharts
             /\ DOMAIN unitPc \cap toVisit = {}
             /\ wg = Cardinality({n \in DOMAIN unitPc : unitPc[n] # "done"})
    /\ aggPc = "seq" => wg = 0 /\ mu = Free
    /\ \A n \in DOMAIN childStrategy :
          childStrategy[n] = "par"
             <=> Cardinality(DOMAIN tree.subcharts[n].subcharts) > 5

\* a sequential merge at the root over two subcharts, one of which merged its own
\* six subcharts concurrently and the other sequentially
FanOutThresholdWitness ==
    /\ aggPc = "seq"
    /\ Cardinality(DOMAIN tree.subcharts) = 2
    /\ \E n, m \in DOMAIN childStrategy :
          childStrategy[n] = "par" /\ childStrategy[m] = "seq"

----------------------------------------------------------------------------
(* Properties of the usage-hint analyzer (SpecHints), stated on what the     *)
(* pipelines say.                                                            *)

\* the token right before the reference, << >> if there is none
TokenBefore(p) == IF p.pre = << >> THEN << >> ELSE p.pre[Len(p.pre)]

\* the function the reference is piped into, << >> if there is none
PipedInto(p) == IF Len(p.post) >= 2 /\ p.post[1] = TokPipe THEN p.post[2] ELSE << >>

\* range with two names separated by a comma before :=
MapIterationText(p) ==
    \E r, c, e \in 1 .. Len(p.pre) :
        r < c /\ c < e /\ p.pre[r] = TokRange /\ p.pre[c] = TokComma /\ p.pre[e] = TokAssign

ArrayIterationText(p) ==
    (\E r \in 1 .. Len(p.pre) : p.pre[r] = TokRange) /\ ~MapIterationText(p)

MapOperationText(p) ==
    ~MapIterationText(p) /\ (TokenBefore(p) \in MapFuncs \/ PipedInto(p) \in MapFuncs)

ArrayOperationText(p) ==
    /\ ~MapIterationText(p)
    /\ (TokenBefore(p) \in {TokLen, TokIndex, TokAppend}
        \/ PipedInto(p) \in {TokLen, TokFirst, TokLast})

\* the analysed pipelines that mention the path itself
Mentions == {p \in seen : p.ref = hintPath}

SequenceHintsSymmetric ==
    \A p \in Mentions :
        (TokenBefore(p) \in {TokLen, TokIndex, TokAppend}
         \/ PipedInto(p) \in {TokLen, TokIndex, TokAppend})
        => hints.hasArrayOperations

\* C20 amended: the path is marked as an array operation exactly when some
\* pipeline in which it is not a map iteration has it right after len, index or
\* append, or right before a pipe into len, first or last
SequenceHints ==
    hints.hasArrayOperations <=> \E p \in Mentions : ArrayOperationText(p)

\* {{ .Values.a | first }} marks a as an array operation; {{ .Values.a | index }}
\* alone would not
SequenceHintsWitness ==
    /\ hintPath = RawA
    /\ seen = {Pipeline(<< >>, RawA, <<TokPipe, TokFirst>>)}
    /\ hints.hasArrayOperations

----------------------------------------------------------------------------
(* Properties of the tokenizer (SpecTok), stated on the pipeline text: a     *)
(* quoted string literal runs from a quote character to the next occurrence  *)
(* of the same character.                                                    *)

\* the literals of the text from position i on, as <<first, last>> positions
RECURSIVE Literals(_, _)
Literals(text, i) ==
    IF i > Len(text) THEN {}
    ELSE IF text[i] \in QuoteChars
    THEN LET closing == {e \in i + 1 .. Len(text) : text[e] = text[i]}
         IN IF closing = {} THEN Literals(text, i + 1)
            ELSE LET e == CHOOSE x \in closing : \A y \in closing : x <= y
                 IN {<<i, e>>} \cup Literals(text, e + 1)
    ELSE Literals(text, i + 1)

InLiteral(text, i) == \E l \in Literals(text, 1) : l[1] <= i /\ i <= l[2]

\* every quote character of the text opens, closes or stands inside a literal
WellQuoted(text) == \A i \in DOMAIN text : text[i] \in QuoteChars => InLiteral(text, i)

\* the positions outside literals that hold c
Outside(text, c) == {i \in DOMAIN text : text[i] = c /\ ~InLiteral(text, i)}

TokensEqual(t) == {k \in DOMAIN tokTokens : tokTokens[k] = t}

\* C21: a quoted string literal is never split (it lies within one token),
\* every "," and "|" outside literals is a token of its own, every ":=" outside
\* literals is one token, a lone ":" or "=" is dropped, and no token is empty
\* or white space.
TokenizationRules ==
    (tokPc = "done" /\ WellQuoted(tokPipeline)) =>
        /\ \A l \in Literals(tokPipeline, 1) :
              \E k \in DOMAIN tokTokens :
                  Contains(tokTokens[k], SubSeq(tokPipeline, l[1], l[2]))
        /\ Cardinality(TokensEqual(<<",">>)) = Cardinality(Outside(tokPipeline, ","))
        /\ Cardinality(TokensEqual(<<"|">>)) = Cardinality(Outside(tokPipeline, "|"))
        /\ Cardinality(TokensEqual(TokAssign)) =
              Cardinality({i \in Outside(tokPipeline, ":") :
                              i < Len(tokPipeline) /\ tokPipeline[i + 1] = "="})
        /\ TokensEqual(<<":">>) = {}
        /\ TokensEqual(<<"=">>) = {}
        /\ \A k \in DOMAIN tokTokens :
              \E i \in DOMAIN tokTokens[k] : tokTokens[k][i] \notin WhiteSpace

----------------------------------------------------------------------------
(* Properties of the schema builder (SpecGen).                              *)

\* the first dot-segment of a path, a trailing [] marker removed
FirstSegment(path) ==
    LET seg == Split(path)[1]
    IN IF HasSuffix(seg, ArrayMarker) THEN SubSeq(seg, 1, Len(seg) - 2) ELSE seg

RECURSIVE NodeAt(_, _, _)
NodeAt(props, parts, i) ==
    IF i = Len(parts) THEN props[parts[i]]
    ELSE IF HasSuffix(parts[i], ArrayMarker)
    THEN NodeAt(props[TrimSuffix(parts[i], ArrayMarker)]["items"]["properties"], parts, i + 1)
    ELSE NodeAt(props[parts[i]]["properties"], parts, i + 1)

\* C10: type-descriptor mapping of leaves.  The final-segment node just built for
\* a path of kind map has type "object", and the one built for a path of kind
\* unknown has no type key.
LeafTypeMapping ==
    (/\ genPc \in {"loop", "done"}
     /\ lastAdded # << >>
     /\ ~HasSuffix(lastAdded, ArrayMarker))
    => LET node == NodeAt(properties, Split(lastAdded), 1)
       IN /\ genValues[lastAdded].Type = "map"
               => ("type" \in DOMAIN node /\ node["type"] = "object")
          /\ genValues[lastAdded].Type = "unknown" => "type" \notin DOMAIN node

\* along the walk of a path from segment i on, every plain segment that is not
\* the last has an object node with a properties map, and every marked segment
\* has an array node
RECURSIVE WellTyped(_, _, _)
WellTyped(props, parts, i) ==
    IF HasSuffix(parts[i], ArrayMarker)
    THEN LET node == props[TrimSuffix(parts[i], ArrayMarker)]
         IN /\ "type" \in DOMAIN node /\ node["type"] = "array"
            /\ i < Len(parts) => WellTyped(node["items"]["properties"], parts, i + 1)
    ELSE i < Len(parts) =>
            LET node == props[parts[i]]
            IN /\ "type" \in DOMAIN node /\ node["type"] = "object"
               /\ WellTyped(node["properties"], parts, i + 1)

\* C22: after Generate every path of the table is represented in the document:
\* the walk along its segments reaches a node, every plain segment before the
\* last has an object node with a properties map, and every marked segment has
\* an array node.
NoPathLost ==
    genPc \in {"done", "panic"} =>
        \A p \in DOMAIN genValues :
            /\ Reaches(properties, Split(p), 1)
            /\ WellTyped(properties, Split(p), 1)

\* the same for the runs in which Generate returns
NoPathLostOnReturn ==
    genPc = "done" =>
        \A p \in DOMAIN genValues :
            /\ Reaches(properties, Split(p), 1)
            /\ WellTyped(properties, Split(p), 1)

----------------------------------------------------------------------------
(* Properties of one bundle's table (Spec).                                 *)

\* q is a proper dot-prefix of p: p continues with "." right after q
IsDotPrefix(q, p) ==
    /\ Len(q) < Len(p)
    /\ SubSeq(p, 1, Len(q) + 1) = q \o <<".">>

DotPrefixes(p) == {q \in {SubSeq(p, 1, k) : k \in 1 .. Len(p)} : IsDotPrefix(q, p)}

FirstObservationWins ==
    [][\A p \in DOMAIN values :
          /\ p \in DOMAIN values'
          /\ values'[p].Path = values[p].Path
          /\ \/ values'[p].Type = values[p].Type
             \/ /\ values[p].Type = "unknown"
                /\ values'[p].Type \in {"object", "array"}
                /\ \E r \in DOMAIN values' : IsDotPrefix(p, r)]_vars

\* a second file observed a again, in a range, and a is an object by then
FirstObservationWitness ==
    /\ nfiles = 2
    /\ <<RawA, "range">> \in lastRanged
    /\ RawA \in DOMAIN values
    /\ values[RawA].Type = "object"

IterationClassification ==
    \A r \in lastRanged :
        /\ normalizePath(r[1]) \in DOMAIN values
        /\ values[normalizePath(r[1])].Type = (IF r[2] = "rangeKV" THEN "map" ELSE "array")

----------------------------------------------------------------------------
(* Properties of the flattened table (SpecAgg).                             *)

\* C28: every path of the table GetAllValues returns has each of its proper
\* dot-prefixes in that table with kind object or array; a subchart named c
\* that contributes c.p has the key c in the table with such a kind.
FlattenedPrefixClosure ==
    ("first" \in DOMAIN returned) =>
        \A p \in DOMAIN returned["first"] :
            \A q \in DotPrefixes(p) :
                /\ q \in DOMAIN returned["first"]
                /\ returned["first"][q].Type \in {"object", "array"}

\* no step of a call changes a parser of the tree
TreeUnchanged == [][tree' = tree]_vars

\* C29: GetAllValues changes no parser of the tree, so that two calls on the
\* same tree, each by the strategy GetAllValues itself picks, return equal
\* tables.
AggregationReadOnly ==
    ({"first", "again"} \subseteq DOMAIN returned /\ strategyOf(tree) = "par")
        => returned["first"] = returned["again"]

\* the steps a goroutine of the concurrent merge takes, in order
UnitOrder == <<"start", "computed", "locked", "done">>

UnitStage(pc) == CHOOSE i \in DOMAIN UnitOrder : UnitOrder[i] = pc

\* every goroutine goes from one step to the next one: it flattens its
\* subchart, then takes mu, then releases it and signals completion
UnitsInOrder ==
    [][\A n \in DOMAIN unitPc \cap DOMAIN unitPc' :
          unitPc'[n] # unitPc[n] =>
             /\ UnitStage(unitPc'[n]) = UnitStage(unitPc[n]) + 1
             /\ unitPc'[n] = "locked" =>
                    /\ mu = Free /\ n = mu'
                    /\ unitValues[n] = GetAllValues(tree.subcharts[n])
             /\ unitPc'[n] = "done" => n = mu /\ mu' = Free /\ wg' = wg - 1]_vars

----------------------------------------------------------------------------
(* Properties of the loop over the template files (SpecFiles).              *)

\* the kinds of a table's paths
KindsOf(vals) == [p \in DOMAIN vals |-> vals[p].Type]

\* C27: the value-path table (keys and kinds) and the variable bindings are the
\* same whatever the order in which the template files are parsed.
FileOrderIndependence ==
    (tplFiles # << >> /\ fwd.todo = << >> /\ rev.todo = << >>) =>
        /\ KindsOf(fwd.values) = KindsOf(rev.values)
        /\ fwd.variables = rev.variables

----------------------------------------------------------------------------
(* Properties of the pass order (SpecOrder).                                *)

\* a path with its proper dot-prefixes
WithDotPrefixes(p) == {p} \cup DotPrefixes(p)

\* the path a reference to a field of a variable bound to P records
Resolved(b) == normalizePath(b.path) \o <<".">> \o normalizePath(b.field)

\* the paths a file of assignments and references records when every reference is
\* resolved against the variable's last assignment: the assigned paths, the
\* resolved paths, and their prefixes
RecordedByLastBinding(bound) ==
    UNION {WithDotPrefixes(normalizePath(b.path)) : b \in bound}
    \cup UNION {WithDotPrefixes(Resolved(b)) : b \in {c \in bound : c.last}}

\* C18: pass order and last write wins.  In one file every reference $X.F, also
\* one standing before a reassignment of $X, is resolved against the file's last
\* assignment to $X; an earlier binding is overwritten and records no path.
PassOrderLastWriteWins ==
    [][\A b \in lastBound' :
          /\ b.last => /\ variables'[b.var] = normalizePath(b.path)
                       /\ Resolved(b) \in DOMAIN values'
          /\ (~b.last /\ Resolved(b) \in DOMAIN values')
                => (Resolved(b) \in DOMAIN values
                    \/ Resolved(b) \in RecordedByLastBinding(lastBound'))]_vars

\* a first file that binds $x to a, references $x.b and then rebinds $x to b:
\* b.b is recorded, a.b is not
PassOrderWitness ==
    /\ nfiles = 1
    /\ \E b \in lastBound : b.last /\ b.refFirst /\ b.path = RawB /\ b.field = RawB
    /\ \E b \in lastBound : ~b.last /\ ~b.refFirst /\ b.path = RawA /\ b.field = RawB
    /\ <<"b", ".", "b">> \in DOMAIN values
    /\ <<"a", ".", "b">> \notin DOMAIN values
    /\ variables["x"] = RawB

----------------------------------------------------------------------------
(* Properties of the normalizer (SpecNorm).                                 *)

\* C6: normalizePath(normalizePath(p)) = normalizePath(p)
NormalizeIdempotent == normPc = "twice" => normTwice = normOnce

\* a raw string that loses trailing punctuation and an index, normalized twice
NormalizeWitness ==
    /\ normPc = "twice"
    /\ normIn = <<"[", "0", "]", ":">>
    /\ normOnce = <<"[", "]">>

====
